---- MODULE Spec2Model ----
(***************************************************************************)
(* Model of the ingestion pipeline of the Error Explorer Vue.js SDK:       *)
(* ErrorReporter (the coordinator), RateLimiter, QuotaManager,             *)
(* CircuitBreaker, RetryManager, BatchManager and OfflineManager.          *)
(*                                                                         *)
(* Time is the value of Date.now(), in model units.  JavaScript runs one   *)
(* task at a time, so every action is one run-to-completion segment: the   *)
(* code between two suspension points (a pending HTTP POST, a retry sleep, *)
(* a timer).                                                               *)
(***************************************************************************)
EXTENDS Integers, Sequences, FiniteSets, TLC

(***************************************************************************)
(* Bounds of the exploration and user-configurable limits.                 *)
(***************************************************************************)
MaxTime == 4
MaxRequests == 3
DuplicateErrorWindow == 2
DailyLimit == 3
MonthlyLimit == 4
BurstLimit == 3
BurstWindowMs == 2
PayloadSizeLimit == 2
DayMs == 3
DaysPerMonth == 2
MaxPending == 2
MaxRecords == 4
MaxReports == 3
MaxTasks == 1
MaxRetries == 1
BatchSize == 2
MaxQueueSize == 2
MaxAge == 1
MaxClock == 1
MaxRetryConfig == 2
MaxBatchPayloadSize == 3
BatchTimeout == 2
MaxBatchTime == 3
MaxSends == 2
QueueMaxAge == 2
MaxQueueTime == 3
MaxCaptures == 4
MaxCaptureTime == 3
MaxTripSends == 6
MaxTripTime == 3
MaxPostReports == 2
MaxNodes == 3
MaxCallStack == 4

(***************************************************************************)
(* Values the coordinator hard-codes (ErrorReporter.initializeServices).   *)
(* One model time unit stands for 20 s, so 60000 ms is 3 units.            *)
(***************************************************************************)
WindowMs == 3
ResetTimeout == 3
MonitoringPeriod == 3
FailureThreshold == 5
MinimumRequests == 3
MaxAttempts == 3

VARIABLES
  now,            \* Date.now()
  rateLimiter,    \* RateLimiter: requests, errorHashes
  quotaManager,   \* QuotaManager: counters and period keys
  quotaStorage,   \* localStorage['error-explorer-quota']: {} or {the value}
  marks,          \* history: when each hash was last marked, last cap denial
  circuitBreaker, \* CircuitBreaker: state, stateChangeTime, requests
  cbCalls,        \* execute() calls whose operation is pending
  config,         \* ErrorReporter.config: enabled, enableBatching, ...
  isInitialized,  \* ErrorReporter.isInitialized
  batchManager,   \* BatchManager: currentBatch, batchTimer
  offlineManager, \* OfflineManager: queue, isOnline, sendFunction, ...
  items,          \* the OfflineQueueItem objects: timestamp, attempts
  queueStorage,   \* localStorage['error-explorer-offline-queue']
  sdkMonitor,     \* SDKMonitor.metrics
  tasks,          \* the suspended async calls: a pending POST or a sleep
  reports,        \* per captured report: its promise and what became of it
  destroyed,      \* destroy() has been called
  retryCall,      \* one executeWithRetry call: its loop position and result
  last            \* observation of the last call: its inputs and results

acctVars == <<rateLimiter, quotaManager, quotaStorage, marks>>

cbVars == <<circuitBreaker, cbCalls>>

reporterVars == <<config, isInitialized, batchManager, offlineManager, items,
                  queueStorage, sdkMonitor, tasks, reports, destroyed>>

coordVars == <<reporterVars, retryCall>>

vars == <<now, acctVars, cbVars, coordVars, last>>

Undefined == -1

(***************************************************************************)
(* Helpers on sequences of timestamps.                                     *)
(***************************************************************************)
SeqToSet(s) == {s[i] : i \in DOMAIN s}

SetMin(S) == CHOOSE x \in S : \A y \in S : x <= y

(***************************************************************************)
(* The reports, as far as the accountants read them: message, file, line.  *)
(***************************************************************************)
Messages == {"boom", "oops"}

ErrorDatas == [message : Messages, file : {"file.ts"}, line : {10}]

ErrorHashes == Messages \X {"file.ts"} \X {10}

PayloadSizes == {1, PayloadSizeLimit, PayloadSizeLimit + 1}

(***************************************************************************)
(* RateLimiter                                                             *)
(***************************************************************************)
\* btoa(key) stripped of non-alphanumerics and cut to 32 characters: the
\* first 24 bytes of "message-file-line".  The modelled keys are shorter
\* than 24 bytes, where the encoding is one-to-one on the triple.
generateErrorHash(errorData) ==
  <<errorData.message, errorData.file, errorData.line>>

removeExpiredRequests(requests, t) ==
  SelectSeq(requests, LAMBDA timestamp : timestamp > t - WindowMs)

getNextResetTime_FromNow(requests, t) == t + WindowMs

getNextResetTime(requests, t) ==
  IF requests = <<>> THEN t + WindowMs
  ELSE SetMin(SeqToSet(requests)) + WindowMs

capReached_OffByOne(requests) == Len(requests) > MaxRequests

\* `this.requests.length >= this.config.maxRequests`
capReached(requests) == Len(requests) >= MaxRequests

\* canSendError: the pruned limiter state and the RateLimitInfo returned.
RateLimiter_canSendError(rl, errorData, t) ==
  LET requests == removeExpiredRequests(rl.requests, t)
      pruned == [rl EXCEPT !.requests = requests]
      errorHash == generateErrorHash(errorData)
      lastSeen == rl.errorHashes[errorHash]
  IN  IF capReached(requests)
      THEN [rl |-> pruned,
            info |-> [allowed |-> FALSE, remaining |-> 0,
                      resetTime |-> getNextResetTime(requests, t),
                      reason |-> "Rate limit exceeded"]]
      \* `lastSeen && ...`: an absent entry and the timestamp 0 are both falsy
      ELSE IF lastSeen # Undefined /\ lastSeen # 0
              /\ (t - lastSeen) < DuplicateErrorWindow
      THEN [rl |-> pruned,
            info |-> [allowed |-> FALSE,
                      remaining |-> MaxRequests - Len(requests),
                      resetTime |-> getNextResetTime(requests, t),
                      reason |-> "Duplicate error"]]
      ELSE [rl |-> pruned,
            info |-> [allowed |-> TRUE,
                      remaining |-> MaxRequests - Len(requests) - 1,
                      resetTime |-> getNextResetTime(requests, t),
                      reason |-> "none"]]

RateLimiter_markErrorSent(rl, errorData, t) ==
  [requests |-> Append(rl.requests, t),
   errorHashes |->
     [rl.errorHashes EXCEPT ![generateErrorHash(errorData)] = t]]

RateLimiter_cleanup(rl, t) ==
  LET cutoff == t - DuplicateErrorWindow
  IN  [requests |-> removeExpiredRequests(rl.requests, t),
       errorHashes |->
         [h \in DOMAIN rl.errorHashes |->
            IF rl.errorHashes[h] # Undefined /\ rl.errorHashes[h] < cutoff
            THEN Undefined ELSE rl.errorHashes[h]]]

\* The limiter's reset: its destroy() empties requests and errorHashes.
RateLimiter_destroy(rl) ==
  [requests |-> <<>>, errorHashes |-> [h \in ErrorHashes |-> Undefined]]

NewRateLimiter ==
  [requests |-> <<>>, errorHashes |-> [h \in ErrorHashes |-> Undefined]]

(***************************************************************************)
(* QuotaManager                                                            *)
(***************************************************************************)
getDateKey(t) == t \div DayMs

getMonthKey(t) == t \div (DayMs * DaysPerMonth)

cleanupBurstCounts(q, t) ==
  [q EXCEPT !.burstCounts =
     SelectSeq(q.burstCounts, LAMBDA timestamp : timestamp > t - BurstWindowMs)]

cleanupOldData_ResetBoth(q, t) ==
  LET currentDate == getDateKey(t)
      currentMonth == getMonthKey(t)
      q1 == IF currentDate # q.lastResetDate
            THEN [q EXCEPT !.dailyCount = 0, !.monthlyCount = 0,
                           !.lastResetDate = currentDate]
            ELSE q
      q2 == IF currentMonth # q1.lastResetMonth
            THEN [q1 EXCEPT !.monthlyCount = 0, !.lastResetMonth = currentMonth]
            ELSE q1
  IN  cleanupBurstCounts(q2, t)

cleanupOldData(q, t) ==
  LET currentDate == getDateKey(t)
      currentMonth == getMonthKey(t)
      q1 == IF currentDate # q.lastResetDate
            THEN [q EXCEPT !.dailyCount = 0, !.lastResetDate = currentDate]
            ELSE q
      q2 == IF currentMonth # q1.lastResetMonth
            THEN [q1 EXCEPT !.monthlyCount = 0, !.lastResetMonth = currentMonth]
            ELSE q1
  IN  cleanupBurstCounts(q2, t)

QuotaManager_canSendError_DailyFirst(q, payloadSize, t) ==
  LET c == cleanupOldData(q, t)
  IN  IF payloadSize > PayloadSizeLimit
      THEN [q |-> c, result |-> [allowed |-> FALSE, reason |-> "Payload size exceeds limit"]]
      ELSE IF c.dailyCount >= DailyLimit
      THEN [q |-> c, result |-> [allowed |-> FALSE, reason |-> "Daily quota exceeded"]]
      ELSE IF Len(c.burstCounts) >= BurstLimit
      THEN [q |-> c, result |-> [allowed |-> FALSE, reason |-> "Burst limit exceeded"]]
      ELSE IF c.monthlyCount >= MonthlyLimit
      THEN [q |-> c, result |-> [allowed |-> FALSE, reason |-> "Monthly quota exceeded"]]
      ELSE [q |-> c, result |-> [allowed |-> TRUE, reason |-> "none"]]

\* canSendError: the reconciled ledger and the QuotaResult returned.
QuotaManager_canSendError(q, payloadSize, t) ==
  LET c == cleanupOldData(q, t)
  IN  IF payloadSize > PayloadSizeLimit
      THEN [q |-> c, result |-> [allowed |-> FALSE, reason |-> "Payload size exceeds limit"]]
      ELSE IF Len(c.burstCounts) >= BurstLimit
      THEN [q |-> c, result |-> [allowed |-> FALSE, reason |-> "Burst limit exceeded"]]
      ELSE IF c.dailyCount >= DailyLimit
      THEN [q |-> c, result |-> [allowed |-> FALSE, reason |-> "Daily quota exceeded"]]
      ELSE IF c.monthlyCount >= MonthlyLimit
      THEN [q |-> c, result |-> [allowed |-> FALSE, reason |-> "Monthly quota exceeded"]]
      ELSE [q |-> c, result |-> [allowed |-> TRUE, reason |-> "none"]]

\* recordUsage: the charged ledger, which saveToStorage() also persists.
QuotaManager_recordUsage(q, t) ==
  LET c == cleanupOldData(q, t)
  IN  [c EXCEPT !.dailyCount = @ + 1, !.monthlyCount = @ + 1,
                !.burstCounts = Append(@, t)]

resetQuotas_KeepBurst(q) ==
  [q EXCEPT !.dailyCount = 0, !.monthlyCount = 0]

resetQuotas(q) ==
  [q EXCEPT !.dailyCount = 0, !.monthlyCount = 0, !.burstCounts = <<>>]

NewQuotaManager(t) ==
  [dailyCount |-> 0, monthlyCount |-> 0, burstCounts |-> <<>>,
   lastResetDate |-> getDateKey(t), lastResetMonth |-> getMonthKey(t)]

\* loadFromStorage: the stored ledger, when there is one, replaces the
\* fields of the new one.  (`parsed.x || default`: the stored counters are
\* numbers, the stored keys non-empty strings.)
loadFromStorage(q, store) ==
  IF store = {} THEN q
  ELSE LET parsed == CHOOSE data \in store : TRUE
       IN  [dailyCount |-> parsed.dailyCount,
            monthlyCount |-> parsed.monthlyCount,
            burstCounts |-> parsed.burstCounts,
            lastResetDate |-> parsed.lastResetDate,
            lastResetMonth |-> parsed.lastResetMonth]

(***************************************************************************)
(* CircuitBreaker                                                          *)
(***************************************************************************)
NewCircuitBreaker(t) ==
  [state |-> "CLOSED", stateChangeTime |-> t, requests |-> <<>>]

cleanupRequests(cb, t) ==
  [cb EXCEPT !.requests =
     SelectSeq(cb.requests, LAMBDA req : req.timestamp > t - MonitoringPeriod)]

shouldOpenCircuit_NoMinimum(cb, t) ==
  LET c == cleanupRequests(cb, t)
      failures == Cardinality({i \in DOMAIN c.requests : ~c.requests[i].success})
  IN  failures * 10 >= FailureThreshold * Len(c.requests)

\* failures / requests.length >= failureThreshold / 10, on the pruned window
shouldOpenCircuit(cb, t) ==
  LET c == cleanupRequests(cb, t)
      failures == Cardinality({i \in DOMAIN c.requests : ~c.requests[i].success})
  IN  /\ Len(c.requests) >= MinimumRequests
      /\ failures * 10 >= FailureThreshold * Len(c.requests)

shouldAttemptReset_Strict(cb, t) == t - cb.stateChangeTime > ResetTimeout

shouldAttemptReset(cb, t) == t - cb.stateChangeTime >= ResetTimeout

CircuitBreaker_onSuccess(cb, t) ==
  LET pushed == [cb EXCEPT !.requests = Append(@, [timestamp |-> t, success |-> TRUE])]
      moved == IF pushed.state = "HALF_OPEN"
               THEN [pushed EXCEPT !.state = "CLOSED", !.stateChangeTime = t]
               ELSE pushed
  IN  cleanupRequests(moved, t)

CircuitBreaker_onFailure(cb, t) ==
  LET pushed == [cb EXCEPT !.requests = Append(@, [timestamp |-> t, success |-> FALSE])]
      moved == IF shouldOpenCircuit(pushed, t)
               THEN [cleanupRequests(pushed, t) EXCEPT
                       !.state = "OPEN", !.stateChangeTime = t]
               ELSE cleanupRequests(pushed, t)
  IN  moved

\* canExecute: the breaker after the call and the boolean returned.
CircuitBreaker_canExecute(cb, t) ==
  IF cb.state = "CLOSED" THEN [cb |-> cb, ok |-> TRUE]
  ELSE IF cb.state = "OPEN" /\ shouldAttemptReset(cb, t)
  THEN [cb |-> [cb EXCEPT !.state = "HALF_OPEN", !.stateChangeTime = t],
        ok |-> TRUE]
  ELSE [cb |-> cb, ok |-> cb.state = "HALF_OPEN"]

\* The entry of execute(), up to the call of the operation: ok = FALSE is
\* the throw of 'Circuit breaker is OPEN'.
CircuitBreaker_execute(cb, t) ==
  IF cb.state = "OPEN"
  THEN IF shouldAttemptReset(cb, t)
       THEN [cb |-> [cb EXCEPT !.state = "HALF_OPEN", !.stateChangeTime = t],
             ok |-> TRUE]
       ELSE [cb |-> cb, ok |-> FALSE]
  ELSE [cb |-> cb, ok |-> TRUE]

CircuitBreaker_reset(cb, t) == NewCircuitBreaker(t)

forceOpen(cb, t) == [cb EXCEPT !.state = "OPEN", !.stateChangeTime = t]

forceClose(cb, t) == [cb EXCEPT !.state = "CLOSED", !.stateChangeTime = t]

BreakerAtStart ==
  /\ circuitBreaker = NewCircuitBreaker(0)
  /\ cbCalls = [trial |-> 0, plain |-> 0]

(***************************************************************************)
(* RetryManager.  An error is its name and its message, a sequence of      *)
(* characters; status is the HTTP status the error stands for (0: no       *)
(* response), which the code does not read.  The messages are the ends of  *)
(* the ones axios builds ("Request failed with status code 500",           *)
(* "timeout of 4000ms exceeded" for config.timeout = 4000, "Network        *)
(* Error").                                                                *)
(***************************************************************************)
Errors ==
  { [name |-> "AxiosError", status |-> 500,
     message |-> <<"s", "t", "a", "t", "u", "s", " ", "c", "o", "d", "e", " ", "5", "0", "0">>],
    [name |-> "AxiosError", status |-> 400,
     message |-> <<"s", "t", "a", "t", "u", "s", " ", "c", "o", "d", "e", " ", "4", "0", "0">>],
    [name |-> "AxiosError", status |-> 401,
     message |-> <<"s", "t", "a", "t", "u", "s", " ", "c", "o", "d", "e", " ", "4", "0", "1">>],
    [name |-> "AxiosError", status |-> 403,
     message |-> <<"s", "t", "a", "t", "u", "s", " ", "c", "o", "d", "e", " ", "4", "0", "3">>],
    [name |-> "AxiosError", status |-> 404,
     message |-> <<"s", "t", "a", "t", "u", "s", " ", "c", "o", "d", "e", " ", "4", "0", "4">>],
    [name |-> "AxiosError", status |-> 0,
     message |-> <<"t", "i", "m", "e", "o", "u", "t", " ", "o", "f", " ", "5", "0", "0", "0", "m", "s", " ", "e", "x", "c", "e", "e", "d", "e", "d">>],
    [name |-> "AxiosError", status |-> 0,
     message |-> <<"t", "i", "m", "e", "o", "u", "t", " ", "o", "f", " ", "4", "0", "0", "0", "m", "s", " ", "e", "x", "c", "e", "e", "d", "e", "d">>],
    [name |-> "AxiosError", status |-> 0,
     message |-> <<"N", "e", "t", "w", "o", "r", "k", " ", "E", "r", "r", "o", "r">>],
    [name |-> "TypeError", status |-> 0,
     message |-> <<"F", "a", "i", "l", "e", "d", " ", "t", "o", " ", "f", "e", "t", "c", "h">>],
    [name |-> "ValidationError", status |-> 0,
     message |-> <<"I", "n", "v", "a", "l", "i", "d", " ", "p", "a", "y", "l", "o", "a", "d">>] }

\* String.prototype.includes
includes(message, pattern) ==
  \E i \in 1..(Len(message) - Len(pattern) + 1) :
    SubSeq(message, i, i + Len(pattern) - 1) = pattern

shouldNotRetry(error) ==
  \/ includes(error.message, <<"4", "0", "0">>)
  \/ includes(error.message, <<"4", "0", "1">>)
  \/ includes(error.message, <<"4", "0", "3">>)
  \/ includes(error.message, <<"4", "0", "4">>)
  \/ error.name = "ValidationError"
  \/ error.name = "TypeError"

NoError == [name |-> "none", status |-> 0, message |-> <<>>]

NoRetryResult == [success |-> FALSE, error |-> NoError, attempts |-> 0]

SuccessResult_AsFailure(attempt) ==
  [success |-> FALSE, error |-> NoError, attempts |-> attempt + 1]

\* The RetryResult returned from inside the loop (lines 42-47).
SuccessResult(attempt) ==
  [success |-> TRUE, error |-> NoError, attempts |-> attempt + 1]

\* The RetryResult returned after the loop (lines 67-72).
FailureResult(lastError, maxRetries) ==
  [success |-> FALSE, error |-> lastError, attempts |-> maxRetries + 1]

\* No executeWithRetry call is in progress.  invoked counts the calls of
\* the operation, succeeded those that resolved, errors lists what the
\* others threw.
NoCall ==
  [phase |-> "idle", maxRetries |-> 0, attempt |-> 0, lastError |-> NoError,
   result |-> NoRetryResult, invoked |-> 0, succeeded |-> 0, errors |-> <<>>]

\* The head of the for loop: test attempt <= maxRetries, then call the
\* operation and suspend on it, or leave the loop and return the failure.
LoopHead(rc) ==
  IF rc.attempt <= rc.maxRetries
  THEN [rc EXCEPT !.phase = "operation", !.invoked = @ + 1]
  ELSE [rc EXCEPT !.phase = "returned",
                  !.result = FailureResult(rc.lastError, rc.maxRetries)]

executeWithRetry(maxRetries) ==
  LoopHead([NoCall EXCEPT !.maxRetries = maxRetries])

\* await operation() resolved.
OperationResolves(rc) ==
  [rc EXCEPT !.phase = "returned", !.succeeded = @ + 1,
             !.result = SuccessResult(rc.attempt)]

\* await operation() threw: the catch block, up to the sleep or the break.
OperationThrows(rc, error) ==
  LET caught == [rc EXCEPT !.lastError = error, !.errors = Append(@, error)]
  IN  IF rc.attempt = rc.maxRetries \/ shouldNotRetry(error)
      THEN [caught EXCEPT !.phase = "returned",
                          !.result = FailureResult(error, rc.maxRetries)]
      ELSE [caught EXCEPT !.phase = "sleep"]

\* The sleep ended: attempt++ and the head of the loop again.
SleepReturns(rc) == LoopHead([rc EXCEPT !.attempt = @ + 1])

(***************************************************************************)
(* The admission stages of captureException: rate check, quota check, and  *)
(* the charge of both accountants once both allowed.  The result holds the *)
(* accountants after the stages and what each check returned.              *)
(***************************************************************************)
NoInfo == [allowed |-> FALSE, remaining |-> 0, resetTime |-> 0, reason |-> "not checked"]

NoResult == [allowed |-> FALSE, reason |-> "not checked"]

Admission_ChargeFirst(rl, q, errorData, payloadSize, t) ==
  LET rateLimitResult == RateLimiter_canSendError(rl, errorData, t)
      quotaResult == QuotaManager_canSendError(q, payloadSize, t)
  IN  IF ~rateLimitResult.info.allowed
      THEN [rl |-> rateLimitResult.rl, q |-> q, charged |-> FALSE,
            rate |-> rateLimitResult.info, quota |-> NoResult]
      ELSE [rl |-> RateLimiter_markErrorSent(rateLimitResult.rl, errorData, t),
            q |-> IF quotaResult.result.allowed
                  THEN QuotaManager_recordUsage(quotaResult.q, t)
                  ELSE quotaResult.q,
            charged |-> quotaResult.result.allowed,
            rate |-> rateLimitResult.info, quota |-> quotaResult.result]

\* The accountants after a capture that charged nothing: what they were
\* before it, up to the pruning of expired entries.
Uncharged(rl0, q0, rl1, q1, t) ==
  /\ rl1.requests = removeExpiredRequests(rl0.requests, t)
  /\ rl1.errorHashes = rl0.errorHashes
  /\ q1 \in {q0, cleanupOldData(q0, t)}

CapturedSizes == {1, PayloadSizeLimit + 1}

CapturedErrors == {e \in ErrorDatas : e.message = "boom"}

\* The charge made whatever the two checks answered.
Admission_ChargeDenied(rl, q, errorData, payloadSize, t) ==
  LET rateLimitResult == RateLimiter_canSendError(rl, errorData, t)
      quotaResult == QuotaManager_canSendError(q, payloadSize, t)
  IN  [rl |-> RateLimiter_markErrorSent(rateLimitResult.rl, errorData, t),
       q |-> QuotaManager_recordUsage(quotaResult.q, t),
       charged |-> TRUE,
       rate |-> rateLimitResult.info, quota |-> quotaResult.result]

Admission(rl, q, errorData, payloadSize, t) ==
  LET rateLimitResult == RateLimiter_canSendError(rl, errorData, t)
      quotaResult == QuotaManager_canSendError(q, payloadSize, t)
  IN  IF ~rateLimitResult.info.allowed
      THEN [rl |-> rateLimitResult.rl, q |-> q, charged |-> FALSE,
            rate |-> rateLimitResult.info, quota |-> NoResult]
      ELSE IF ~quotaResult.result.allowed
      THEN [rl |-> rateLimitResult.rl, q |-> quotaResult.q, charged |-> FALSE,
            rate |-> rateLimitResult.info, quota |-> quotaResult.result]
      ELSE [rl |-> RateLimiter_markErrorSent(rateLimitResult.rl, errorData, t),
            q |-> QuotaManager_recordUsage(quotaResult.q, t),
            charged |-> TRUE,
            rate |-> rateLimitResult.info, quota |-> quotaResult.result]

\* History of the limiter's use: when each hash was last marked (Undefined
\* when never, or not since the limiter was emptied), and the resetTime of
\* the last cap denial that no admission has followed.
NoMarks == [at |-> [h \in ErrorHashes |-> Undefined], capReset |-> Undefined]

MarksAfter(m, a, errorData, t) ==
  IF a.charged
  THEN [at |-> [m.at EXCEPT ![generateErrorHash(errorData)] = t],
        capReset |-> Undefined]
  ELSE IF a.rate.reason = "Rate limit exceeded"
  THEN [m EXCEPT !.capReset = a.rate.resetTime]
  ELSE m

\* The positions of the admitted timestamps still inside windowMs at time t.
InWindow(requests, t) == {i \in DOMAIN requests : t - requests[i] < WindowMs}

(***************************************************************************)
(* The coordinator and the transport substrate.                            *)
(*                                                                         *)
(* Reports are numbered in capture order.  An OfflineQueueItem is made     *)
(* once per report, so the report's number names its item; the queue and   *)
(* a flush's snapshot hold item names and share the item objects in items. *)
(* A task is one suspended chain of async calls: kind says which chain,    *)
(* phase whether it waits for the POST or sleeps before the next attempt.  *)
(***************************************************************************)
ReportIds == 1..MaxReports

NoItem == [timestamp |-> Undefined, attempts |-> 0]

\* size is the serialized size of the report, which the batch estimate adds
\* up; the reports the coordinator batches have size 1.
NewReport ==
  [promise |-> "unused", charged |-> FALSE, suppressed |-> 0, delivered |-> 0,
   size |-> 1]

\* The coordinator after construction.  beforeSend says whether the
\* configuration has a beforeSend hook; batchTimeout is config.batchTimeout
\* and maxAge config.offlineQueueMaxAge, in time units; remaining is the
\* time left on the armed flush timer; ids are the numbers of the reports
\* that will be captured.
ReporterAtStart(batching, offline, beforeSend, batchTimeout, maxAge, maxQueueSize, ids) ==
  /\ config = [enabled |-> TRUE, enableBatching |-> batching,
               enableOfflineSupport |-> offline, beforeSend |-> beforeSend]
  /\ isInitialized = TRUE
  /\ batchManager = [enabled |-> batching, maxWaitTime |-> batchTimeout,
                     currentBatch |-> <<>>, batchTimer |-> "null",
                     remaining |-> 0]
  /\ offlineManager = [maxQueueSize |-> maxQueueSize, maxAge |-> maxAge,
                       queue |-> <<>>, isOnline |-> TRUE,
                       sendFunction |-> TRUE, processingQueue |-> FALSE,
                       listening |-> TRUE]
  /\ items = [r \in ids |-> NoItem]
  /\ queueStorage = {}
  /\ sdkMonitor = [errorsReported |-> 0, errorsSuppressed |-> 0, retryAttempts |-> 0]
  /\ tasks = {}
  /\ reports = [r \in ids |-> NewReport]
  /\ destroyed = FALSE
  /\ retryCall = NoCall

\* The same with a beforeSend hook and MaxReports reports.
CoordinatorAtStart(batching, offline, batchTimeout, maxAge, maxQueueSize) ==
  ReporterAtStart(batching, offline, TRUE, batchTimeout, maxAge,
                  maxQueueSize, ReportIds)

\* What one run-to-completion segment did: whether it invoked the transport
\* (posted), and did so past an OPEN breaker (postInOpen); the report it
\* admitted and charged (admitted, 0 for none); the reports of a send that
\* sendErrorDirectly / sendBatchDirectly gave up on while offline support
\* was enabled (exhausted); the report it put in the offline queue
\* (enqueued, 0 for none); whether a run of processQueue ended in it
\* (flushEnded) and the items that run had copied from the queue (flushed).
\* noSlot is set when the segment needs more suspended chains than the bound
\* allows.  calls: see Called.
NoObs ==
  [postInOpen |-> FALSE, noSlot |-> FALSE, posted |-> FALSE, admitted |-> 0,
   exhausted |-> {}, enqueued |-> 0, flushEnded |-> FALSE, flushed |-> <<>>,
   calls |-> <<>>]

\* The segment called the named method: calls lists, in order, the calls
\* captureException made on its collaborators.
Called(w, method) == [w EXCEPT !.obs.calls = Append(@, method)]

\* The observation of the last segment: as above, and whether it was a
\* capture call made while isEnabled() was false and, if so, whether the
\* call left the whole state as it was.
NoSegment ==
  [postInOpen |-> FALSE, disabledCapture |-> FALSE, same |-> FALSE,
   posted |-> FALSE, admitted |-> 0, exhausted |-> {}]

(***************************************************************************)
(* SpecAcct: the two accountants as the coordinator drives them.           *)
(***************************************************************************)
AcctAtStart ==
  /\ rateLimiter = NewRateLimiter
  /\ quotaManager = NewQuotaManager(0)
  /\ quotaStorage = {}
  /\ marks = NoMarks

InitAcct ==
  /\ now = 0
  /\ AcctAtStart
  /\ BreakerAtStart
  /\ CoordinatorAtStart(TRUE, TRUE, 0, MaxAge, MaxQueueSize)
  /\ last = [op |-> "init"]

AcctTick ==
  /\ now < MaxTime
  /\ now' = now + 1
  /\ last' = [op |-> "tick"]
  /\ UNCHANGED <<acctVars, cbVars, coordVars>>

AcctCapture(errorData, payloadSize) ==
  LET a == Admission(rateLimiter, quotaManager, errorData, payloadSize, now)
  IN  /\ rateLimiter' = a.rl
      /\ quotaManager' = a.q
      /\ quotaStorage' = IF a.charged THEN {a.q} ELSE quotaStorage
      /\ marks' = MarksAfter(marks, a, errorData, now)
      /\ last' = [op |-> "capture", errorData |-> errorData,
                  payloadSize |-> payloadSize, at |-> now,
                  rate |-> a.rate, quota |-> a.quota, charged |-> a.charged,
                  preCount |-> Cardinality(InWindow(rateLimiter.requests, now)),
                  preMin |-> IF InWindow(rateLimiter.requests, now) = {}
                             THEN Undefined
                             ELSE SetMin({rateLimiter.requests[i] :
                                    i \in InWindow(rateLimiter.requests, now)}),
                  markedAt |-> marks.at[generateErrorHash(errorData)],
                  capReset |-> marks.capReset,
                  uncharged |-> Uncharged(rateLimiter, quotaManager, a.rl, a.q, now)]
      /\ UNCHANGED <<now, cbVars, coordVars>>

\* The sweeper the limiter runs every windowMs.
AcctCleanup ==
  /\ rateLimiter' = RateLimiter_cleanup(rateLimiter, now)
  /\ last' = [op |-> "cleanup"]
  /\ UNCHANGED <<now, quotaManager, quotaStorage, marks, cbVars, coordVars>>

BlockedByRate(rl, t) ==
  {e \in ErrorDatas : ~RateLimiter_canSendError(rl, e, t).info.allowed}

BlockedByQuota(q, t) ==
  {<<size, QuotaManager_canSendError(q, size, t).result.reason>> :
     size \in {z \in PayloadSizes :
                 ~QuotaManager_canSendError(q, z, t).result.allowed}}

AcctResetRateLimiter ==
  /\ rateLimiter' = RateLimiter_destroy(rateLimiter)
  /\ marks' = NoMarks
  /\ last' = [op |-> "reset", blockedRate |-> BlockedByRate(rateLimiter, now),
              rateReasons |-> {RateLimiter_canSendError(rateLimiter, e, now).info.reason :
                                 e \in BlockedByRate(rateLimiter, now)}]
  /\ UNCHANGED <<now, quotaManager, quotaStorage, cbVars, coordVars>>

AcctResetQuotas ==
  /\ quotaManager' = resetQuotas(quotaManager)
  /\ quotaStorage' = {quotaManager'}
  /\ last' = [op |-> "resetQuotas", blockedQuota |-> BlockedByQuota(quotaManager, now)]
  /\ UNCHANGED <<now, rateLimiter, marks, cbVars, coordVars>>

\* A new session: the accountants are constructed again, and the quota
\* ledger is loaded from the durable store.
AcctReload ==
  /\ rateLimiter' = NewRateLimiter
  /\ quotaManager' = loadFromStorage(NewQuotaManager(now), quotaStorage)
  /\ marks' = NoMarks
  /\ last' = [op |-> "reload"]
  /\ UNCHANGED <<now, quotaStorage, cbVars, coordVars>>

NextAcct ==
  \/ AcctTick
  \/ \E errorData \in ErrorDatas, payloadSize \in PayloadSizes :
       AcctCapture(errorData, payloadSize)
  \/ AcctCleanup
  \/ AcctResetRateLimiter
  \/ AcctResetQuotas
  \/ AcctReload

SpecAcct == InitAcct /\ [][NextAcct]_vars

\* The whole program state as one value, so that a call chain is a
\* composition of operators; obs collects what the current segment did.
World ==
  [rl |-> rateLimiter, q |-> quotaManager, qs |-> quotaStorage,
   cb |-> circuitBreaker, cfg |-> config, init |-> isInitialized,
   bm |-> batchManager, om |-> offlineManager, items |-> items,
   store |-> queueStorage, mon |-> sdkMonitor, tasks |-> tasks,
   reps |-> reports, destroyed |-> destroyed, obs |-> NoObs,
   cap |-> MaxTasks]

Commit(w) ==
  /\ ~w.obs.noSlot
  /\ rateLimiter' = w.rl
  /\ quotaManager' = w.q
  /\ quotaStorage' = w.qs
  /\ circuitBreaker' = w.cb
  /\ config' = w.cfg
  /\ isInitialized' = w.init
  /\ batchManager' = w.bm
  /\ offlineManager' = w.om
  /\ items' = [r \in DOMAIN w.items |->
                 IF \/ \E i \in DOMAIN w.om.queue : w.om.queue[i] = r
                    \/ \E task \in w.tasks :
                         /\ task.kind = "flush"
                         /\ \E i \in DOMAIN task.snapshot :
                              i >= task.idx /\ task.snapshot[i] = r
                 THEN w.items[r] ELSE NoItem]
  /\ queueStorage' = w.store
  /\ sdkMonitor' = w.mon
  /\ tasks' = w.tasks
  /\ reports' = w.reps
  /\ destroyed' = w.destroyed
  /\ retryCall' = retryCall

(***************************************************************************)
(* SDKMonitor                                                              *)
(***************************************************************************)
NoContext == [suppressed |-> FALSE]

\* `if (context?.suppressed) this.metrics.errorsSuppressed++`
trackError(w, context) ==
  [w EXCEPT !.mon.errorsReported = @ + 1,
            !.mon.errorsSuppressed = IF context.suppressed THEN @ + 1 ELSE @]

trackSuppressedError(w, r) ==
  [w EXCEPT !.mon.errorsSuppressed = @ + 1, !.reps[r].suppressed = @ + 1]

trackRetryAttempt(w) == [w EXCEPT !.mon.retryAttempts = @ + 1]

(***************************************************************************)
(* OfflineManager: the queue                                               *)
(***************************************************************************)
saveQueueToStorage(w) ==
  [w EXCEPT !.store =
     {[i \in DOMAIN w.om.queue |->
         [id |-> w.om.queue[i],
          timestamp |-> w.items[w.om.queue[i]].timestamp,
          attempts |-> w.items[w.om.queue[i]].attempts]]}]

cleanupQueue(w) ==
  [w EXCEPT !.om.queue =
     SelectSeq(w.om.queue, LAMBDA id : w.items[id].timestamp > now - w.om.maxAge)]

\* Array.prototype.sort by timestamp (stable): insertion of each element
\* after the elements not newer than it.
RECURSIVE SortByTimestamp(_, _)
SortByTimestamp(its, queue) ==
  IF queue = <<>> THEN <<>>
  ELSE LET rest == SortByTimestamp(its, SubSeq(queue, 1, Len(queue) - 1))
           x == queue[Len(queue)]
           before == SelectSeq(rest, LAMBDA id : its[id].timestamp <= its[x].timestamp)
           after == SelectSeq(rest, LAMBDA id : its[id].timestamp > its[x].timestamp)
       IN  before \o <<x>> \o after

sliceLast_First(queue, n) == SubSeq(queue, 1, n)

\* Array.prototype.slice(-n)
sliceLast(queue, n) == SubSeq(queue, Len(queue) - n + 1, Len(queue))

queueError(w, r) ==
  LET w1 == cleanupQueue([w EXCEPT !.items[r] = [timestamp |-> now, attempts |-> 0],
                                   !.obs.enqueued = r])
      pushed == Append(w1.om.queue, r)
      bounded == IF Len(pushed) > w1.om.maxQueueSize
                 THEN sliceLast(SortByTimestamp(w1.items, pushed), w1.om.maxQueueSize)
                 ELSE pushed
  IN  saveQueueToStorage([w1 EXCEPT !.om.queue = bounded])

(***************************************************************************)
(* The transport: sendWithCompression posts the payload, and the chain of  *)
(* calls awaiting the POST is suspended as a task.  At most MaxTasks       *)
(* chains are suspended at a time.                                         *)
(***************************************************************************)
BreakerBlocks(cb) == cb.state = "OPEN" /\ ~shouldAttemptReset(cb, now)

\* this.httpClient.post(...) is invoked for the payload of the task.
sendWithCompression(w, task) ==
  [w EXCEPT !.tasks = @ \cup {[task EXCEPT !.phase = "post"]},
            !.obs.posted = TRUE,
            !.obs.postInOpen = @ \/ BreakerBlocks(w.cb)]

Task(kind, payload, waiter) ==
  [kind |-> kind, payload |-> payload, count |-> Len(payload),
   waiter |-> waiter, phase |-> "post",
   attempt |-> 0, outer |-> 0, snapshot |-> <<>>, idx |-> 0,
   processedItems |-> {}, thenBatch |-> FALSE]

\* Start a new chain with its first POST (executeWithRetry, attempt 0).
StartTask(w, task) ==
  IF Cardinality(w.tasks) >= w.cap THEN [w EXCEPT !.obs.noSlot = TRUE]
  ELSE sendWithCompression(w, task)

\* The awaiting captureException call returns: its promise resolves.
Resolve(w, r) ==
  IF r = 0 THEN w ELSE [w EXCEPT !.reps[r].promise = "resolved"]

MarkDelivered(w, payload) ==
  [w EXCEPT !.reps = [r \in DOMAIN w.reps |->
                        IF \E i \in DOMAIN payload : payload[i] = r
                        THEN [w.reps[r] EXCEPT !.delivered = @ + 1]
                        ELSE w.reps[r]]]

(***************************************************************************)
(* The send paths.  Each operator runs the code up to the next suspension  *)
(* point and leaves the chain's task behind when the chain goes on.        *)
(***************************************************************************)
\* captureException's catch block: the failure is measured, logged in debug
\* mode, and the call returns.
captureCatch_Rethrow(w, r) == [w EXCEPT !.reps[r].promise = "rejected"]

captureCatch(w, r) == Resolve(w, r)

\* BatchManager.sendCurrentBatch, up to its POST.
sendCurrentBatch_KeepBatch(w, waiter) ==
  IF w.bm.currentBatch = <<>> THEN Resolve(w, waiter)
  ELSE StartTask([w EXCEPT !.bm.batchTimer = "null", !.bm.remaining = 0],
                 Task("batch", w.bm.currentBatch, waiter))

\* The envelope copies currentBatch and counts it; the batch is emptied and
\* the timer cleared before sendFunction is called.
sendCurrentBatch(w, waiter) ==
  IF w.bm.currentBatch = <<>> THEN Resolve(w, waiter)
  ELSE StartTask([w EXCEPT !.bm.currentBatch = <<>>, !.bm.batchTimer = "null",
                           !.bm.remaining = 0],
                 [Task("batch", w.bm.currentBatch, waiter) EXCEPT
                    !.count = Len(w.bm.currentBatch)])

\* The size of the serialized envelope of the reports: the sum of their
\* sizes (the envelope's own fields are counted in the limit).
RECURSIVE estimateBatchSize(_, _)
estimateBatchSize(reps, batch) ==
  IF batch = <<>> THEN 0
  ELSE reps[Head(batch)].size + estimateBatchSize(reps, Tail(batch))

shouldSendBatch_CountOnly(w) == Len(w.bm.currentBatch) >= BatchSize

shouldSendBatch(w) ==
  \/ Len(w.bm.currentBatch) >= BatchSize
  \/ estimateBatchSize(w.reps, w.bm.currentBatch) >= MaxBatchPayloadSize

startBatchTimer(w) ==
  [w EXCEPT !.bm.batchTimer = "armed", !.bm.remaining = w.bm.maxWaitTime]

addError(w, r) ==
  IF ~w.bm.enabled
  THEN StartTask(w, Task("single", <<r>>, r))
  ELSE LET w1 == [w EXCEPT !.bm.currentBatch = Append(@, r)]
       IN  IF shouldSendBatch(w1) THEN sendCurrentBatch(w1, r)
           ELSE IF w1.bm.batchTimer = "null"
           THEN Resolve(startBatchTimer(w1), r)
           ELSE Resolve(w1, r)

\* handleError returned to a caller of the given kind: inside
\* circuitBreaker.execute the operation succeeded.
handleErrorReturns(w, r, kind) ==
  IF kind = "guardedOffline"
  THEN Resolve([w EXCEPT !.cb = CircuitBreaker_onSuccess(w.cb, now)], r)
  ELSE Resolve(w, r)

handleError(w, r, kind) ==
  IF w.om.isOnline /\ w.om.sendFunction
  THEN StartTask(w, Task(kind, <<r>>, r))
  ELSE handleErrorReturns(queueError(w, r), r, kind)

\* sendError's catch block: the failure is counted, and without offline
\* support the report is handed to retryManager.retry.
sendErrorCatch(w, r) ==
  LET w1 == trackRetryAttempt(w)
  IN  IF w1.cfg.enableOfflineSupport THEN Resolve(w1, r)
      ELSE StartTask(w1, Task("retry", <<r>>, r))

sendError(w, r) ==
  IF w.cfg.enableBatching THEN addError(w, r)
  ELSE LET c == CircuitBreaker_canExecute(w.cb, now)
           e == CircuitBreaker_execute(c.cb, now)
       IN  IF ~c.ok THEN handleError([w EXCEPT !.cb = c.cb], r, "diverted")
           ELSE IF ~e.ok THEN sendErrorCatch([w EXCEPT !.cb = e.cb], r)
           ELSE IF w.cfg.enableOfflineSupport
           THEN handleError([w EXCEPT !.cb = e.cb], r, "guardedOffline")
           ELSE StartTask([w EXCEPT !.cb = e.cb], Task("guardedDirect", <<r>>, r))

\* processQueue's loop from position idx of its snapshot: a queued item is
\* posted, or, when the send function is gone, the call throws at once.
RECURSIVE FlushFrom_FromSnapshot(_, _)
FlushFrom_FromSnapshot(w, task) ==
  IF task.idx > Len(task.snapshot)
  THEN LET w1 == saveQueueToStorage(
                   [w EXCEPT !.om.queue = SelectSeq(task.snapshot, LAMBDA id : id \notin task.processedItems),
                             !.om.processingQueue = FALSE,
                             !.obs.flushEnded = TRUE,
                             !.obs.flushed = task.snapshot])
       IN  IF task.thenBatch THEN sendCurrentBatch(w1, 0) ELSE w1
  ELSE LET id == task.snapshot[task.idx]
       IN  IF w.om.sendFunction
           THEN sendWithCompression(w, [task EXCEPT !.payload = <<id>>, !.attempt = 0])
           ELSE LET w1 == [w EXCEPT !.items[id].attempts = @ + 1]
                IN  FlushFrom_FromSnapshot(w1,
                      [task EXCEPT !.idx = @ + 1,
                                   !.processedItems =
                                      IF w1.items[id].attempts >= MaxAttempts
                                      THEN @ \cup {id} ELSE @])

RECURSIVE FlushFrom(_, _)
FlushFrom(w, task) ==
  IF task.idx > Len(task.snapshot)
  THEN LET w1 == saveQueueToStorage(
                   [w EXCEPT !.om.queue = SelectSeq(@, LAMBDA id : id \notin task.processedItems),
                             !.om.processingQueue = FALSE,
                             !.obs.flushEnded = TRUE,
                             !.obs.flushed = task.snapshot])
       IN  IF task.thenBatch THEN sendCurrentBatch(w1, 0) ELSE w1
  ELSE LET id == task.snapshot[task.idx]
       IN  IF w.om.sendFunction
           THEN sendWithCompression(w, [task EXCEPT !.payload = <<id>>, !.attempt = 0])
           ELSE LET w1 == [w EXCEPT !.items[id].attempts = @ + 1]
                IN  FlushFrom(w1,
                      [task EXCEPT !.idx = @ + 1,
                                   !.processedItems =
                                      IF w1.items[id].attempts >= MaxAttempts
                                      THEN @ \cup {id} ELSE @])

processQueue_NoGuard(w, thenBatch) ==
  IF ~w.om.isOnline \/ ~w.om.sendFunction
  THEN IF thenBatch THEN sendCurrentBatch(w, 0) ELSE w
  ELSE IF Len(w.om.queue) > 0 /\ Cardinality(w.tasks) >= w.cap
       THEN [w EXCEPT !.obs.noSlot = TRUE]
  ELSE FlushFrom([w EXCEPT !.om.processingQueue = TRUE],
                 [Task("flush", <<>>, 0) EXCEPT !.snapshot = w.om.queue,
                                                !.idx = 1,
                                                !.thenBatch = thenBatch])

processQueue(w, thenBatch) ==
  IF w.om.processingQueue \/ ~w.om.isOnline \/ ~w.om.sendFunction
  THEN IF thenBatch THEN sendCurrentBatch(w, 0) ELSE w
  ELSE IF Len(w.om.queue) > 0 /\ Cardinality(w.tasks) >= w.cap
       THEN [w EXCEPT !.obs.noSlot = TRUE]
  ELSE FlushFrom([w EXCEPT !.om.processingQueue = TRUE],
                 [Task("flush", <<>>, 0) EXCEPT !.snapshot = w.om.queue,
                                                !.idx = 1,
                                                !.thenBatch = thenBatch])

\* OfflineManager.flushQueue, then BatchManager.flush.
flushQueue(w) ==
  IF w.om.isOnline THEN processQueue(w, TRUE) ELSE sendCurrentBatch(w, 0)

\* sendErrorDirectly / sendBatchDirectly returned to the chain of the task:
\* the POST succeeded.
sendDirectlyReturns_KeepSent(w, task) ==
  LET w1 == MarkDelivered(w, task.payload)
  IN  CASE task.kind \in {"batch", "single", "diverted", "retry"} ->
             Resolve(w1, task.waiter)
        [] task.kind \in {"guardedOffline", "guardedDirect"} ->
             Resolve([w1 EXCEPT !.cb = CircuitBreaker_onSuccess(w.cb, now)],
                     task.waiter)
        [] task.kind = "flush" ->
             FlushFrom(w1, [task EXCEPT !.idx = @ + 1])

sendDirectlyReturns(w, task) ==
  LET w1 == MarkDelivered(w, task.payload)
  IN  CASE task.kind \in {"batch", "single", "diverted", "retry"} ->
             Resolve(w1, task.waiter)
        [] task.kind \in {"guardedOffline", "guardedDirect"} ->
             Resolve([w1 EXCEPT !.cb = CircuitBreaker_onSuccess(w.cb, now)],
                     task.waiter)
        [] task.kind = "flush" ->
             FlushFrom(w1,
               [task EXCEPT !.idx = @ + 1,
                            !.processedItems = @ \cup {task.snapshot[task.idx]}])

\* sendErrorDirectly / sendBatchDirectly threw result.error.
sendDirectlyThrows(w0, task, retryable) ==
  LET r == task.waiter
      w == IF w0.cfg.enableOfflineSupport /\ task.kind \notin {"flush", "retry"}
           THEN [w0 EXCEPT !.obs.exhausted = SeqToSet(task.payload)]
           ELSE w0
  IN  CASE task.kind = "batch" -> Resolve(w, r)
        [] task.kind = "single" -> captureCatch(w, r)
        [] task.kind = "diverted" ->
             handleErrorReturns(queueError(w, r), r, "diverted")
        [] task.kind = "guardedOffline" ->
             handleErrorReturns(queueError(w, r), r, "guardedOffline")
        [] task.kind = "guardedDirect" ->
             sendErrorCatch([w EXCEPT !.cb = CircuitBreaker_onFailure(w.cb, now)], r)
        [] task.kind = "retry" ->
             IF task.outer = MaxRetries \/ ~retryable
             THEN Resolve(w, r)
             ELSE [w EXCEPT !.tasks = @ \cup {[task EXCEPT !.phase = "sleepOuter"]}]
        [] task.kind = "flush" ->
             LET id == task.snapshot[task.idx]
                 w1 == [w EXCEPT !.items[id].attempts = @ + 1]
             IN  FlushFrom(w1,
                   [task EXCEPT !.idx = @ + 1,
                                !.processedItems =
                                   IF w1.items[id].attempts >= MaxAttempts
                                   THEN @ \cup {id} ELSE @])

(***************************************************************************)
(* ErrorReporter: the public operations.                                   *)
(***************************************************************************)
isEnabled(cfg, init) == cfg.enabled /\ init

EntryGate_EnabledOnly(cfg, init) == ~cfg.enabled

EntryGate(cfg, init) == ~cfg.enabled \/ ~init

\* What the stages before admission do with the report: formatError or
\* validatePayload throws, validation fails, the beforeSend hook returns
\* nothing or throws, or the report passes them.
Stages == {"pass", "invalid", "hookDrop", "hookThrow", "throw"}

\* The rate check, the quota check, the charge of both accountants and
\* sendError (lines 329-355).
admitAndSend(w1, r, errorData, payloadSize) ==
  LET a == Admission(w1.rl, w1.q, errorData, payloadSize, now)
      w2 == [w1 EXCEPT !.rl = a.rl, !.q = a.q,
                       !.qs = IF a.charged THEN {a.q} ELSE @,
                       !.reps[r].charged = a.charged]
      w3 == Called(w2, "rateLimiter.canSendError")
      w4 == IF a.quota = NoResult THEN w3
            ELSE Called(w3, "quotaManager.canSendError")
  IN  IF a.charged
      THEN sendError([Called(Called(Called(w4, "markErrorSent"), "recordUsage"),
                             "sendError")
                        EXCEPT !.obs.admitted = r], r)
      ELSE Resolve(trackSuppressedError(w4, r), r)

captureException_HookAfterAdmission(w, r, stage, errorData, payloadSize, context) ==
  IF EntryGate(w.cfg, w.init) THEN w
  ELSE LET w1 == Called(trackError([w EXCEPT !.reps[r].promise = "pending"],
                                   context), "trackError")
           validated == Called(w1, "validatePayload")
           sent == admitAndSend(Called(validated, "sanitizeErrorData"), r,
                                errorData, payloadSize)
       IN  CASE stage = "throw" -> captureCatch(w1, r)
             [] stage = "invalid" ->
                  Resolve(trackSuppressedError(validated, r), r)
             [] stage \in {"pass", "hookDrop", "hookThrow"} ->
                  IF w.cfg.beforeSend THEN Called(sent, "beforeSend") ELSE sent

captureException(w, r, stage, errorData, payloadSize, context) ==
  IF EntryGate(w.cfg, w.init) THEN w
  ELSE LET w1 == Called(trackError([w EXCEPT !.reps[r].promise = "pending"],
                                   context), "trackError")
           validated == Called(w1, "validatePayload")
           sanitized == Called(validated, "sanitizeErrorData")
           hooked == IF w.cfg.beforeSend THEN Called(sanitized, "beforeSend")
                     ELSE sanitized
       IN  CASE stage = "throw" -> captureCatch(w1, r)
             [] stage = "invalid" ->
                  Resolve(trackSuppressedError(validated, r), r)
             [] stage = "hookDrop" /\ w.cfg.beforeSend ->
                  Resolve(trackSuppressedError(hooked, r), r)
             [] stage = "hookThrow" /\ w.cfg.beforeSend ->
                  captureCatch(hooked, r)
             [] OTHER ->
                  admitAndSend(hooked, r, errorData, payloadSize)

ErrorReporter_destroy(w) ==
  LET q1 == resetQuotas(w.q)
      w1 == saveQueueToStorage(
              [w EXCEPT !.rl = RateLimiter_destroy(w.rl),
                        !.om.listening = FALSE,
                        !.om.queue = <<>>])
      w2 == [w1 EXCEPT !.om.sendFunction = FALSE,
                       !.q = q1, !.qs = {q1},
                       !.bm.batchTimer = "null", !.bm.remaining = 0]
      w3 == sendCurrentBatch(w2, 0)
  IN  [w3 EXCEPT !.init = FALSE, !.destroyed = TRUE]

Updates == {"enabled", "disabled", "batching"}

updateConfig(w, updates) ==
  CASE updates = "enabled" -> [w EXCEPT !.cfg.enabled = TRUE]
    [] updates = "disabled" -> [w EXCEPT !.cfg.enabled = FALSE]
    [] updates = "batching" -> [w EXCEPT !.cfg.enableBatching = TRUE]

(***************************************************************************)
(* Spec: the coordinator with its transport, timers and network events.    *)
(***************************************************************************)
Init ==
  /\ now = 0
  /\ AcctAtStart
  /\ BreakerAtStart
  /\ \E batching \in BOOLEAN, offline \in BOOLEAN :
       CoordinatorAtStart(batching, offline, 0, MaxAge, MaxQueueSize)
  /\ last = NoSegment

Observed(w, disabledCapture) ==
  /\ Commit(w)
  /\ last' = [postInOpen |-> w.obs.postInOpen,
              disabledCapture |-> disabledCapture,
              same |-> disabledCapture /\ [w EXCEPT !.obs = NoObs] = World,
              posted |-> w.obs.posted,
              admitted |-> w.obs.admitted,
              exhausted |-> w.obs.exhausted]
  /\ UNCHANGED <<now, marks, cbCalls>>

Step(w) == Observed(w, FALSE)

Unused == {r \in DOMAIN reports : reports[r].promise = "unused"}

\* The calls of captureException: a report that passes the stages before
\* admission, with its fingerprint and its size after beforeSend, or one
\* that a stage before admission drops or fails on.
Captures ==
  [stage : {"pass"}, errorData : CapturedErrors, payloadSize : CapturedSizes]
    \cup [stage : Stages \ {"pass"}, errorData : CapturedErrors, payloadSize : {1}]

Capture(c) ==
  /\ EntryGate(config, isInitialized) \/ Unused # {}
  /\ Observed(captureException(World, IF Unused = {} THEN 0 ELSE SetMin(Unused),
                               c.stage, c.errorData, c.payloadSize, NoContext),
              ~isEnabled(config, isInitialized))

Outcomes == {"ok", "retryable", "fatal"}

\* The world with the task taken out: the chain of the task runs on.
Resumed(task) == [World EXCEPT !.tasks = @ \ {task}]

\* The POST of a task settles: executeWithRetry returns, sleeps before the
\* next attempt, or gives up.
PostSettles(task, outcome) ==
  /\ task.phase = "post"
  /\ Step(IF outcome = "ok" THEN sendDirectlyReturns(Resumed(task), task)
          ELSE IF task.attempt = MaxRetries \/ outcome = "fatal"
          THEN sendDirectlyThrows(Resumed(task), task, outcome = "retryable")
          ELSE [World EXCEPT !.tasks = (@ \ {task}) \cup {[task EXCEPT !.phase = "sleep"]}])

SleepEnds(task) ==
  /\ task.phase \in {"sleep", "sleepOuter"}
  /\ Step(sendWithCompression(Resumed(task),
            IF task.phase = "sleep"
            THEN [task EXCEPT !.attempt = @ + 1]
            ELSE [task EXCEPT !.outer = @ + 1, !.attempt = 0]))

BatchTimerFires ==
  /\ batchManager.batchTimer = "armed"
  /\ batchManager.remaining = 0
  /\ Step(sendCurrentBatch([World EXCEPT !.bm.batchTimer = "fired"], 0))

FlushQueue == Step(flushQueue(World))

Online ==
  /\ offlineManager.listening
  /\ ~offlineManager.isOnline
  /\ Step(processQueue([World EXCEPT !.om.isOnline = TRUE], FALSE))

Offline ==
  /\ offlineManager.listening
  /\ offlineManager.isOnline
  /\ Step([World EXCEPT !.om.isOnline = FALSE])

UpdateConfig(updates) == Step(updateConfig(World, updates))

Destroy ==
  /\ ~destroyed
  /\ Step(ErrorReporter_destroy(World))

Tick ==
  /\ now < MaxClock
  /\ now' = now + 1
  /\ last' = NoSegment
  /\ UNCHANGED <<acctVars, cbVars, coordVars>>

Next ==
  \/ \E c \in Captures : Capture(c)
  \/ \E task \in tasks, outcome \in Outcomes : PostSettles(task, outcome)
  \/ \E task \in tasks : SleepEnds(task)
  \/ BatchTimerFires
  \/ FlushQueue
  \/ Online
  \/ Offline
  \/ \E updates \in Updates : UpdateConfig(updates)
  \/ Destroy
  \/ Tick

Spec == Init /\ [][Next]_vars

(***************************************************************************)
(* Claims about the accountants (SpecAcct).                                *)
(***************************************************************************)
\* C2: a capture dropped by the rate limiter or by the quota accountant
\* leaves the admitted timestamps, the fingerprint map and the daily,
\* monthly and burst counters as they were, apart from expiry pruning; the
\* accountants are charged only when both checks allowed.
C2_ChargeAfterAdmission ==
  last.op = "capture"
  => /\ last.charged <=> (last.rate.allowed /\ last.quota.allowed)
     /\ ~last.charged => last.uncharged
     /\ last.charged => ~last.uncharged

C2_DroppedByQuota ==
  /\ last.op = "capture"
  /\ last.rate.allowed
  /\ ~last.quota.allowed
  /\ last.quota.reason = "Daily quota exceeded"
  /\ last.uncharged
  /\ Len(rateLimiter.requests) > 0

\* The report of the last capture is not a duplicate: its hash was never
\* marked, or was marked duplicateErrorWindow or more ago.
NonDuplicate(l) ==
  l.markedAt = Undefined \/ l.at - l.markedAt >= DuplicateErrorWindow

\* C7: after markErrorSent(r) at time t, a check of a report with the same
\* (message, file, line) at time now is denied with reason "Duplicate error"
\* when now - t < duplicateErrorWindow, t = 0 included, and is not denied as
\* a duplicate when now - t >= duplicateErrorWindow.  The cap is tested
\* first (C8), so the statement is about checks made below the cap.
C7_DuplicateSuppression ==
  (last.op = "capture" /\ last.markedAt # Undefined
     /\ last.preCount < MaxRequests)
  => IF last.at - last.markedAt < DuplicateErrorWindow
     THEN ~last.rate.allowed /\ last.rate.reason = "Duplicate error"
     ELSE last.rate.reason # "Duplicate error"

C9_ResetTime ==
  last.op = "capture"
  => /\ (last.rate.reason = "Rate limit exceeded"
          => last.preMin # Undefined
             /\ last.rate.resetTime = last.preMin + WindowMs)
     /\ (last.capReset # Undefined /\ last.at >= last.capReset
            /\ NonDuplicate(last)
          => last.rate.allowed)

C9_AdmittedAfterReset ==
  /\ last.op = "capture"
  /\ last.capReset # Undefined
  /\ last.at >= last.capReset
  /\ last.preMin # Undefined
  /\ last.rate.allowed

InitBreaker ==
  /\ now = 0
  /\ AcctAtStart
  /\ BreakerAtStart
  /\ CoordinatorAtStart(TRUE, TRUE, 0, MaxAge, MaxQueueSize)
  /\ last = [op |-> "init"]

BreakerTick ==
  /\ now < MaxTime
  /\ now' = now + 1
  /\ last' = [op |-> "tick", was |-> circuitBreaker.state]
  /\ UNCHANGED <<acctVars, cbVars, coordVars>>

BreakerCanExecute ==
  LET r == CircuitBreaker_canExecute(circuitBreaker, now)
  IN  /\ circuitBreaker' = r.cb
      /\ last' = [op |-> "canExecute", ok |-> r.ok, at |-> now,
                  was |-> circuitBreaker.state,
                  since |-> circuitBreaker.stateChangeTime,
                  trials |-> cbCalls.trial]
      /\ UNCHANGED <<now, acctVars, cbCalls, coordVars>>

BreakerExecute ==
  LET r == CircuitBreaker_execute(circuitBreaker, now)
  IN  /\ cbCalls.trial + cbCalls.plain < MaxPending
      /\ Len(circuitBreaker.requests) + cbCalls.trial + cbCalls.plain < MaxRecords
      /\ circuitBreaker' = r.cb
      /\ cbCalls' = IF ~r.ok THEN cbCalls
                    ELSE IF r.cb.state = "HALF_OPEN"
                    THEN [cbCalls EXCEPT !.trial = @ + 1]
                    ELSE [cbCalls EXCEPT !.plain = @ + 1]
      /\ last' = [op |-> "execute", ok |-> r.ok, at |-> now,
                  was |-> circuitBreaker.state,
                  since |-> circuitBreaker.stateChangeTime,
                  trials |-> cbCalls.trial]
      /\ UNCHANGED <<now, acctVars, coordVars>>

BreakerOperationEnds(kind, success) ==
  /\ cbCalls[kind] > 0
  /\ cbCalls' = [cbCalls EXCEPT ![kind] = @ - 1]
  /\ circuitBreaker' = IF success
                       THEN CircuitBreaker_onSuccess(circuitBreaker, now)
                       ELSE CircuitBreaker_onFailure(circuitBreaker, now)
  /\ last' = [op |-> IF success THEN "onSuccess" ELSE "onFailure", at |-> now,
              was |-> circuitBreaker.state, kind |-> kind]
  /\ UNCHANGED <<now, acctVars, coordVars>>

BreakerForceOpen ==
  /\ circuitBreaker' = forceOpen(circuitBreaker, now)
  /\ last' = [op |-> "forceOpen"]
  /\ UNCHANGED <<now, acctVars, cbCalls, coordVars>>

BreakerForceClose ==
  /\ circuitBreaker' = forceClose(circuitBreaker, now)
  /\ last' = [op |-> "forceClose"]
  /\ UNCHANGED <<now, acctVars, cbCalls, coordVars>>

BreakerReset ==
  /\ circuitBreaker' = CircuitBreaker_reset(circuitBreaker, now)
  /\ last' = [op |-> "reset"]
  /\ UNCHANGED <<now, acctVars, cbCalls, coordVars>>

NextBreaker ==
  \/ BreakerTick
  \/ BreakerCanExecute
  \/ BreakerExecute
  \/ \E kind \in {"trial", "plain"}, success \in BOOLEAN :
       BreakerOperationEnds(kind, success)
  \/ BreakerForceOpen
  \/ BreakerForceClose
  \/ BreakerReset

SpecBreaker == InitBreaker /\ [][NextBreaker]_vars

\* C6: while the breaker is HALF_OPEN at most one trial request is in
\* flight: a second execute() or canExecute() issued before the trial has
\* completed is refused.
C6_SingleTrial ==
  /\ circuitBreaker.state = "HALF_OPEN" => cbCalls.trial <= 1
  /\ (last.op \in {"canExecute", "execute"} /\ last.was = "HALF_OPEN"
        /\ last.trials >= 1)
     => ~last.ok

\* The outcomes the breaker holds, and those of them that are failures.
Recorded == Len(circuitBreaker.requests)

RecordedFailures ==
  Cardinality({i \in DOMAIN circuitBreaker.requests :
                 ~circuitBreaker.requests[i].success})

\* C11: recording a failure while CLOSED opens the breaker exactly when the
\* outcomes recorded within MonitoringPeriod (the failure included) number
\* at least MinimumRequests and at least FailureThreshold tenths of them
\* are failures; recording a success while CLOSED never opens it.  So
\* MinimumRequests - 1 outcomes, all failures, leave it CLOSED.
C11_OpensAtThreshold ==
  /\ (last.op = "onFailure" /\ last.was = "CLOSED")
     => /\ \A i \in DOMAIN circuitBreaker.requests :
             circuitBreaker.requests[i].timestamp > last.at - MonitoringPeriod
        /\ circuitBreaker.state \in {"CLOSED", "OPEN"}
        /\ circuitBreaker.state = "OPEN"
             <=> /\ Recorded >= MinimumRequests
                 /\ RecordedFailures * 10 >= FailureThreshold * Recorded
        /\ circuitBreaker.state = "OPEN"
             => circuitBreaker.stateChangeTime = last.at
  /\ (last.op = "onSuccess" /\ last.was = "CLOSED")
     => circuitBreaker.state = "CLOSED"

\* A failure recorded while CLOSED opened the breaker although one of the
\* outcomes in the window is a success.
C11_OpenedBelowFullRate ==
  /\ last.op = "onFailure"
  /\ last.was = "CLOSED"
  /\ circuitBreaker.state = "OPEN"
  /\ RecordedFailures < Recorded

\* C12: an admission check (canExecute or execute) made while OPEN is
\* refused and changes nothing at every time before stateChangeTime +
\* ResetTimeout; at or after that time it is allowed and moves the breaker
\* to HALF_OPEN.  The passage of time alone leaves the state as it was.
C12_LazyHalfOpen ==
  /\ (last.op \in {"canExecute", "execute"} /\ last.was = "OPEN")
     => IF last.at >= last.since + ResetTimeout
        THEN /\ last.ok
             /\ circuitBreaker.state = "HALF_OPEN"
             /\ circuitBreaker.stateChangeTime = last.at
        ELSE /\ ~last.ok
             /\ circuitBreaker.state = "OPEN"
             /\ circuitBreaker.stateChangeTime = last.since
  /\ last.op = "tick" => circuitBreaker.state = last.was

\* canExecute() made exactly ResetTimeout after the breaker opened moved it
\* to HALF_OPEN.
C12_HalfOpenAtTimeout ==
  /\ last.op = "canExecute"
  /\ last.was = "OPEN"
  /\ last.at = last.since + ResetTimeout
  /\ circuitBreaker.state = "HALF_OPEN"

\* C13: an outcome recorded while HALF_OPEN moves the breaker: a success to
\* CLOSED, a failure back to OPEN, whatever the monitoring window holds.
C13_HalfOpenOutcome ==
  (last.op \in {"onSuccess", "onFailure"} /\ last.was = "HALF_OPEN")
  => circuitBreaker.state =
       IF last.op = "onSuccess" THEN "CLOSED" ELSE "OPEN"

(***************************************************************************)
(* SpecRetry: one RetryManager and the executeWithRetry calls made on it,  *)
(* one at a time, with every configured maxRetries up to MaxRetryConfig    *)
(* and every outcome of each call of the operation.  SpecRetryLive adds    *)
(* that a pending operation settles and a sleep timer fires.               *)
(***************************************************************************)
InitRetry ==
  /\ now = 0
  /\ AcctAtStart
  /\ BreakerAtStart
  /\ CoordinatorAtStart(TRUE, TRUE, 0, MaxAge, MaxQueueSize)
  /\ last = [op |-> "init"]

RetryCall(maxRetries) ==
  /\ retryCall.phase \in {"idle", "returned"}
  /\ retryCall' = executeWithRetry(maxRetries)
  /\ last' = [op |-> "executeWithRetry"]
  /\ UNCHANGED <<now, acctVars, cbVars, reporterVars>>

RetryOperationResolves ==
  /\ retryCall.phase = "operation"
  /\ retryCall' = OperationResolves(retryCall)
  /\ last' = [op |-> "resolves"]
  /\ UNCHANGED <<now, acctVars, cbVars, reporterVars>>

RetryOperationThrows(error) ==
  /\ retryCall.phase = "operation"
  /\ retryCall' = OperationThrows(retryCall, error)
  /\ last' = [op |-> "throws"]
  /\ UNCHANGED <<now, acctVars, cbVars, reporterVars>>

RetrySleepEnds ==
  /\ retryCall.phase = "sleep"
  /\ retryCall' = SleepReturns(retryCall)
  /\ last' = [op |-> "sleepEnds"]
  /\ UNCHANGED <<now, acctVars, cbVars, reporterVars>>

RetrySettles ==
  \/ RetryOperationResolves
  \/ \E error \in Errors : RetryOperationThrows(error)

NextRetry ==
  \/ \E maxRetries \in 0..MaxRetryConfig : RetryCall(maxRetries)
  \/ RetryOperationResolves
  \/ \E error \in Errors : RetryOperationThrows(error)
  \/ RetrySleepEnds

SpecRetry == InitRetry /\ [][NextRetry]_vars

SpecRetryLive ==
  SpecRetry /\ WF_vars(RetrySettles) /\ WF_vars(RetrySleepEnds)

\* C14: a call of executeWithRetry invokes the operation at most
\* maxRetries + 1 times, invokes it no more once it has resolved, returns a
\* result with success = TRUE exactly when an invocation resolved, and,
\* once started, always returns.
C14_BoundedAttempts ==
  /\ [](/\ retryCall.invoked <= retryCall.maxRetries + 1
        /\ retryCall.succeeded <= 1
        /\ retryCall.succeeded = 1 => retryCall.phase = "returned"
        /\ retryCall.phase = "returned"
             => (retryCall.result.success <=> retryCall.succeeded = 1))
  /\ (retryCall.phase \in {"operation", "sleep"})
       ~> (retryCall.phase = "returned")

\* A call succeeded on its last permitted attempt, after maxRetries
\* retryable failures.
C14_SucceededOnLastAttempt ==
  /\ retryCall.phase = "returned"
  /\ retryCall.result.success
  /\ retryCall.maxRetries = MaxRetryConfig
  /\ retryCall.invoked = retryCall.maxRetries + 1

\* The errors the retry policy names: HTTP status 400, 401, 403 or 404, or
\* the error classes ValidationError and TypeError.
NonRetryable(error) ==
  \/ error.status \in {400, 401, 403, 404}
  \/ error.name \in {"ValidationError", "TypeError"}

\* C15: after an attempt failed with a non-retryable error no further
\* attempt is made and the call returns failure with that error; after any
\* other error, with attempts remaining, a further attempt is made.
C15_NonRetryableStops ==
  LET n == Len(retryCall.errors)
  IN  /\ \A i \in 1..n :
           NonRetryable(retryCall.errors[i])
           => /\ i = n
              /\ retryCall.phase = "returned"
              /\ ~retryCall.result.success
              /\ retryCall.result.error = retryCall.errors[i]
      /\ (n > 0 /\ ~NonRetryable(retryCall.errors[n]) /\ n <= retryCall.maxRetries)
         => \/ retryCall.phase = "sleep"
            \/ retryCall.invoked > n

(***************************************************************************)
(* Claims about the coordinator (Spec).                                    *)
(***************************************************************************)
InBatch(r) == \E i \in DOMAIN batchManager.currentBatch : batchManager.currentBatch[i] = r

\* The report is the payload of a suspended send or is in the snapshot of
\* a flush that has not finished.
InTask(r) ==
  \E task \in tasks :
    \/ \E i \in DOMAIN task.payload : task.payload[i] = r
    \/ \E i \in DOMAIN task.snapshot : task.snapshot[i] = r

\* The report is in the offline queue and in the stored copy of the queue.
Queued(r) ==
  /\ \E i \in DOMAIN offlineManager.queue : offlineManager.queue[i] = r
  /\ \E stored \in queueStorage : \E i \in DOMAIN stored : stored[i].id = r

\* The capture of the report has returned and nothing is left to do for it.
Settled(r) == reports[r].promise = "resolved" /\ ~InBatch(r) /\ ~InTask(r)

TerminalOutcomes(r) ==
  (IF reports[r].delivered > 0 THEN {"delivered"} ELSE {})
    \cup (IF Queued(r) THEN {"queued"} ELSE {})
    \cup (IF reports[r].suppressed > 0 THEN {"dropped"} ELSE {})

\* C1: every report that passed the entry gate and all stages before the
\* transport, or that a stage dropped, ends with exactly one terminal
\* outcome: delivered once, or in the durable offline queue, or dropped with
\* exactly one suppressed-error record.
C1_ExactlyOneOutcome ==
  \A r \in ReportIds :
    (Settled(r) /\ (reports[r].charged \/ reports[r].suppressed > 0))
    => /\ Cardinality(TerminalOutcomes(r)) = 1
       /\ reports[r].delivered <= 1
       /\ reports[r].suppressed <= 1

C4_DisabledDropsAtEntry ==
  /\ destroyed => ~isEnabled(config, isInitialized)
  /\ ~config.enabled => ~isEnabled(config, isInitialized)
  /\ last.disabledCapture => last.same

C4_CaptureAfterDestroy ==
  /\ destroyed
  /\ config.enabled
  /\ last.disabledCapture
  /\ last.same
  /\ Unused # {}

\* C5: while the circuit breaker is OPEN and resetTimeout has not elapsed
\* since it opened, no path of the coordinator invokes the transport.
C5_NoPostWhileOpen == ~last.postInOpen

\* The report is in the offline queue, stored, and has failed no flush.
QueuedFresh(r) == Queued(r) /\ items[r].attempts = 0

\* C16: with offline support enabled, when a send of the direct path or of
\* the batched path has failed for good (the retry executor gave up), every
\* report of the failed payload is in the offline queue with attempts = 0.
C16_FailedSendQueued == \A r \in last.exhausted : QueuedFresh(r)

\* C20: with offline support enabled, a capture that is admitted while the
\* network is offline is in the offline queue with attempts = 0 when the
\* call comes back, and the call has not invoked the transport.
C20_OfflineCaptureQueued ==
  (last.admitted # 0 /\ config.enableOfflineSupport /\ ~offlineManager.isOnline)
  => /\ QueuedFresh(last.admitted)
     /\ ~last.posted

(***************************************************************************)
(* SpecBatch: the BatchManager with its sendFunction, its flush timer and  *)
(* the clock.  Reports are numbered in the order of the addError calls; up *)
(* to MaxSends envelopes are in flight at a time.  last carries the        *)
(* history: the envelopes handed to sendFunction so far, in order, and the *)
(* time the first report of the current batch was added.                   *)
(***************************************************************************)
BatchWorld == [World EXCEPT !.cap = MaxSends]

InitBatch ==
  /\ now = 0
  /\ AcctAtStart
  /\ BreakerAtStart
  /\ CoordinatorAtStart(TRUE, TRUE, BatchTimeout, MaxAge, MaxQueueSize)
  /\ last = [op |-> "init", r |-> 0, at |-> 0, before |-> <<>>,
             remainingBefore |-> 0, envelopes |-> <<>>, batchStart |-> 0,
             started |-> FALSE]

\* The envelopes of the sends the segment started (at most one).
NewEnvelopes(w) ==
  LET started == w.tasks \ tasks
  IN  IF started = {} THEN <<>>
      ELSE LET task == CHOOSE task \in started : TRUE
           IN  <<[errors |-> task.payload, count |-> task.count]>>

BatchStep(op, r, w) ==
  /\ Commit(w)
  /\ last' = [op |-> op, r |-> r, at |-> now,
              before |-> batchManager.currentBatch,
              remainingBefore |-> batchManager.remaining,
              envelopes |-> last.envelopes \o NewEnvelopes(w),
              started |-> NewEnvelopes(w) # <<>>,
              batchStart |-> IF op = "addError" /\ batchManager.currentBatch = <<>>
                             THEN now ELSE last.batchStart]
  /\ UNCHANGED <<now, marks, cbCalls>>

BatchAddError(size) ==
  /\ Unused # {}
  /\ LET r == SetMin(Unused)
     IN  BatchStep("addError", r,
           addError([BatchWorld EXCEPT !.reps[r].promise = "pending",
                                       !.reps[r].size = size], r))

\* sendFunction(batch) settles.
BatchSendSettles(task, ok) ==
  LET w == [BatchWorld EXCEPT !.tasks = @ \ {task}]
  IN  BatchStep("settle", 0,
        IF ok THEN sendDirectlyReturns(w, task)
        ELSE sendDirectlyThrows(w, task, FALSE))

BatchTimerExpires ==
  /\ batchManager.batchTimer = "armed"
  /\ batchManager.remaining = 0
  /\ BatchStep("timer", 0,
       sendCurrentBatch([BatchWorld EXCEPT !.bm.batchTimer = "fired"], 0))

\* BatchManager.flush
BatchFlush ==
  /\ batchManager.currentBatch # <<>>
  /\ BatchStep("flush", 0, sendCurrentBatch(BatchWorld, 0))

\* Time passes; a timer fires when its delay has run out.
BatchTick ==
  /\ now < MaxBatchTime
  /\ batchManager.batchTimer = "armed" => batchManager.remaining > 0
  /\ now' = now + 1
  /\ batchManager' =
       IF batchManager.batchTimer = "armed"
       THEN [batchManager EXCEPT !.remaining = @ - 1] ELSE batchManager
  /\ last' = [last EXCEPT !.op = "tick", !.started = FALSE]
  /\ UNCHANGED <<acctVars, cbVars, config, isInitialized, offlineManager,
                 items, queueStorage, sdkMonitor, tasks, reports, destroyed,
                 retryCall>>

NextBatch ==
  \/ \E size \in {1, MaxBatchPayloadSize} : BatchAddError(size)
  \/ \E task \in tasks, ok \in BOOLEAN : BatchSendSettles(task, ok)
  \/ BatchTimerExpires
  \/ BatchFlush
  \/ BatchTick

SpecBatch == InitBatch /\ [][NextBatch]_vars

\* The newest envelope holds exactly the given reports, its send is pending,
\* and the batch was emptied and the timer cleared.
SentNow(batch) ==
  /\ last.envelopes # <<>>
  /\ last.envelopes[Len(last.envelopes)].errors = batch
  /\ \E task \in tasks : task.payload = batch /\ task.phase = "post"
  /\ batchManager.currentBatch = <<>>
  /\ batchManager.batchTimer = "null"

\* C17: an addError that makes the batch reach BatchSize reports, or its
\* estimated size reach MaxBatchPayloadSize, hands the batch to the send
\* function at once; any other addError leaves the report in the batch
\* with the flush timer pending, and the timer fires, handing over the
\* batch, exactly maxWaitTime after the first report of the batch was
\* added.  While the batch is non-empty the timer is pending.
C17_FlushTriggers ==
  LET b == Append(last.before, last.r)
  IN  /\ last.op = "addError"
         => IF \/ Len(b) >= BatchSize
               \/ estimateBatchSize(reports, b) >= MaxBatchPayloadSize
            THEN SentNow(b)
            ELSE /\ batchManager.currentBatch = b
                 /\ \A task \in tasks : \A i \in DOMAIN task.payload :
                       task.payload[i] # last.r
      /\ last.op = "timer"
         => /\ last.before # <<>>
            /\ SentNow(last.before)
            /\ last.at = last.batchStart + batchManager.maxWaitTime
      /\ batchManager.currentBatch # <<>>
         => /\ batchManager.batchTimer = "armed"
            /\ now + batchManager.remaining
                 = last.batchStart + batchManager.maxWaitTime

\* A batch of one report was handed over by the timer, and an earlier
\* report went out alone because of its size.
C17_TimerSentPartialBatch ==
  /\ last.op = "timer"
  /\ Len(last.before) = 1
  /\ Len(last.envelopes) = 2
  /\ Len(last.envelopes[1].errors) = 1

\* The number of envelopes that list the report.
EnvelopesOf(r) ==
  Cardinality({i \in DOMAIN last.envelopes :
                 \E j \in DOMAIN last.envelopes[i].errors :
                   last.envelopes[i].errors[j] = r})

\* The reports are listed in the order of their addError calls.
InCallOrder(errors) ==
  \A i, j \in DOMAIN errors : i < j => errors[i] < errors[j]

\* C18: every report added to the batch is in the current batch or in
\* exactly one envelope, never both; an envelope lists its reports in the
\* order they were added, each once, with count the number of its reports;
\* a later envelope holds only reports added after those of an earlier
\* one; when a send has just been started the batch is empty and the timer
\* cleared.
C18_OneEnvelopePerReport ==
  /\ \A r \in ReportIds :
       reports[r].promise # "unused"
       => EnvelopesOf(r) + (IF InBatch(r) THEN 1 ELSE 0) = 1
  /\ InCallOrder(batchManager.currentBatch)
  /\ \A i \in DOMAIN last.envelopes :
       /\ last.envelopes[i].errors # <<>>
       /\ InCallOrder(last.envelopes[i].errors)
       /\ last.envelopes[i].count = Len(last.envelopes[i].errors)
       /\ \A k \in DOMAIN last.envelopes :
            i < k => \A a \in DOMAIN last.envelopes[i].errors,
                        b \in DOMAIN last.envelopes[k].errors :
                       last.envelopes[i].errors[a] < last.envelopes[k].errors[b]
  /\ last.started
     => /\ batchManager.currentBatch = <<>>
        /\ batchManager.batchTimer = "null"

\* A report was added while the send of an earlier envelope was pending,
\* and then went out in a second envelope while the first was still
\* pending.
C18_AddedDuringSend ==
  /\ Len(last.envelopes) = 2
  /\ Cardinality(tasks) = 2
  /\ Len(last.envelopes[1].errors) = 2
  /\ last.op = "flush"

(***************************************************************************)
(* SpecQueue: the OfflineManager with its sendFunction, the network events *)
(* and the clock.  Reports are numbered in the order of the handleError    *)
(* calls; up to MaxSends sends are pending at a time.                      *)
(***************************************************************************)
QueueWorld == [World EXCEPT !.cap = MaxSends]

\* The queue as the array of its items.
QueueItems(queue, its) ==
  [i \in DOMAIN queue |->
     [id |-> queue[i], timestamp |-> its[queue[i]].timestamp,
      attempts |-> its[queue[i]].attempts]]

\* The send that settled in the segment: the kind of its chain, the items
\* it carried and whether it resolved.
NoSettle == [kind |-> "none", payload |-> <<>>, ok |-> FALSE]

\* last in SpecQueue: the call of the segment (op, at), the queue, the
\* in-progress flag and the stored array before it, what the segment did,
\* the send that settled in it, and log, the items in the order they were
\* enqueued so far.
NoQueueStep ==
  [op |-> "init", enqueued |-> 0, at |-> 0, before |-> <<>>,
   processingBefore |-> FALSE, storeBefore |-> {}, posted |-> FALSE,
   sent |-> <<>>, flushEnded |-> FALSE, flushed |-> <<>>, log |-> <<>>,
   settled |-> NoSettle]

InitQueue ==
  /\ now = 0
  /\ AcctAtStart
  /\ BreakerAtStart
  /\ \E maxQueueSize \in {MaxQueueSize, MaxQueueSize + 1} :
       CoordinatorAtStart(FALSE, TRUE, 0, QueueMaxAge, maxQueueSize)
  /\ last = NoQueueStep

\* The items the segment handed to sendFunction from a run of processQueue.
FlushSends(w) ==
  LET started == {task \in w.tasks \ tasks : task.kind = "flush"}
  IN  IF started = {} THEN <<>>
      ELSE LET task == CHOOSE task \in started : TRUE IN task.payload

QueueStepOf(op, settled, w) ==
  /\ Commit(w)
  /\ last' = [op |-> op, settled |-> settled,
              enqueued |-> w.obs.enqueued, at |-> now,
              before |-> QueueItems(offlineManager.queue, items),
              processingBefore |-> offlineManager.processingQueue,
              storeBefore |-> queueStorage,
              posted |-> w.obs.posted,
              sent |-> FlushSends(w),
              flushEnded |-> w.obs.flushEnded,
              flushed |-> w.obs.flushed,
              log |-> IF w.obs.enqueued = 0 THEN last.log
                      ELSE Append(last.log, w.obs.enqueued)]
  /\ UNCHANGED <<now, marks, cbCalls>>

QueueStep(op, w) == QueueStepOf(op, NoSettle, w)

QueueHandleError ==
  /\ Unused # {}
  /\ LET r == SetMin(Unused)
     IN  QueueStep("handleError",
           handleError([QueueWorld EXCEPT !.reps[r].promise = "pending"],
                       r, "diverted"))

\* sendFunction(errorData) settles.
QueueSendSettles(task, ok) ==
  LET w == [QueueWorld EXCEPT !.tasks = @ \ {task}]
  IN  QueueStepOf("settle",
        [kind |-> task.kind, payload |-> task.payload, ok |-> ok],
        IF ok THEN sendDirectlyReturns(w, task)
        ELSE sendDirectlyThrows(w, task, FALSE))

QueueOnline ==
  /\ ~offlineManager.isOnline
  /\ QueueStep("online", processQueue([QueueWorld EXCEPT !.om.isOnline = TRUE], FALSE))

QueueOffline ==
  /\ offlineManager.isOnline
  /\ QueueStep("offline", [QueueWorld EXCEPT !.om.isOnline = FALSE])

\* OfflineManager.flushQueue
QueueFlushQueue ==
  QueueStep("flushQueue",
    IF offlineManager.isOnline THEN processQueue(QueueWorld, FALSE)
    ELSE QueueWorld)

QueueTick ==
  /\ now < MaxQueueTime
  /\ now' = now + 1
  /\ last' = [NoQueueStep EXCEPT !.op = "tick", !.at = now, !.log = last.log]
  /\ UNCHANGED <<acctVars, cbVars, coordVars>>

NextQueue ==
  \/ QueueHandleError
  \/ \E task \in tasks, ok \in BOOLEAN : QueueSendSettles(task, ok)
  \/ QueueOnline
  \/ QueueOffline
  \/ QueueFlushQueue
  \/ QueueTick

SpecQueue == InitQueue /\ [][NextQueue]_vars

\* The items an enqueue chooses from: those of the queue before the call
\* that have not expired, then the new item.
Candidates ==
  SelectSeq(last.before,
            LAMBDA item : item.timestamp > last.at - offlineManager.maxAge)
    \o <<[id |-> last.enqueued, timestamp |-> last.at, attempts |-> 0]>>

Kept == QueueItems(offlineManager.queue, items)

Evicted == SeqToSet(Candidates) \ SeqToSet(Kept)

\* C19: after an enqueue the queue holds at most maxQueueSize items; they
\* are the newest of the candidates (every evicted item was enqueued no
\* later than every kept one, and none is evicted while there is room),
\* the new item among them with attempts = 0; and the array in the durable
\* store is the queue.
C19_QueueBound ==
  last.enqueued # 0
  => /\ Len(Kept) <= offlineManager.maxQueueSize
     /\ SeqToSet(Kept) \subseteq SeqToSet(Candidates)
     /\ Len(Kept) = IF Len(Candidates) > offlineManager.maxQueueSize
                    THEN offlineManager.maxQueueSize ELSE Len(Candidates)
     /\ \A e \in Evicted : \A i \in DOMAIN Kept : e.timestamp <= Kept[i].timestamp
     /\ Kept[Len(Kept)] = [id |-> last.enqueued, timestamp |-> last.at,
                           attempts |-> 0]
     /\ queueStorage = {Kept}

\* An enqueue overflowed the queue and evicted an item that was enqueued
\* earlier than the ones kept.
C19_EvictedOldest ==
  /\ last.enqueued # 0
  /\ Len(Candidates) > offlineManager.maxQueueSize
  /\ \E e \in Evicted : \A i \in DOMAIN Kept : e.timestamp < Kept[i].timestamp

\* The position of the item in the order of the enqueues.
EnqueuePosition(id) == CHOOSE i \in DOMAIN last.log : last.log[i] = id

\* Every item the run of processQueue had copied was delivered by it.
AllDelivered(flushed) ==
  /\ flushed # <<>>
  /\ \A i \in DOMAIN flushed : reports[flushed[i]].delivered > 0

\* The run of processQueue in progress sends its items one by one in the
\* order they were enqueued.
FlushInEnqueueOrder ==
  \A task \in tasks :
    task.kind = "flush"
    => /\ task.payload = <<task.snapshot[task.idx]>>
       /\ \A i, j \in DOMAIN task.snapshot :
            i < j => EnqueuePosition(task.snapshot[i]) < EnqueuePosition(task.snapshot[j])

\* C21: a flush of the offline queue attempts the queued items in enqueue
\* order, and when every item of the flush was delivered the queue in memory
\* is empty and the key of the queue is removed from the durable store.
C21_FlushClearsStore ==
  /\ FlushInEnqueueOrder
  /\ (last.flushEnded /\ AllDelivered(last.flushed))
     => /\ offlineManager.queue = <<>>
        /\ queueStorage = {}

\* The runs of processQueue that are suspended on a send.
FlushRuns == {task \in tasks : task.kind = "flush"}

FlushTriggers == {"online", "flushQueue"}

\* C22: at most one run of processQueue is active; the in-progress flag is
\* set exactly while a run is suspended on a send and is cleared when the
\* run ends, whether its sends resolved or threw; a trigger (online event
\* or flushQueue) that arrives while the flag is set sends nothing and
\* leaves the run in progress; a trigger that arrives online while it is
\* clear and the queue is not empty starts a run.
C22_SingleFlush ==
  /\ Cardinality(FlushRuns) <= 1
  /\ offlineManager.processingQueue <=> FlushRuns # {}
  /\ last.flushEnded => ~offlineManager.processingQueue
  /\ (last.op \in FlushTriggers /\ last.processingBefore)
     => /\ ~last.posted
        /\ ~last.flushEnded
        /\ offlineManager.processingQueue
  /\ (/\ last.op \in FlushTriggers
      /\ ~last.processingBefore
      /\ offlineManager.isOnline
      /\ last.before # <<>>)
     => /\ last.posted
        /\ offlineManager.processingQueue
        /\ \A task \in FlushRuns : QueueItems(task.snapshot, items) = last.before

\* flushQueue was called while a run was suspended on a send, and that run
\* had started after an earlier run in which a send threw.
C22_TriggerDuringFlush ==
  /\ last.op = "flushQueue"
  /\ last.processingBefore
  /\ offlineManager.isOnline
  /\ \E task \in FlushRuns : items[task.snapshot[1]].attempts > 0

\* C23: every array in the durable store of the offline queue holds only
\* items with attempts < MaxAttempts that were enqueued no later than now.
C23_PersistedItems ==
  \A stored \in queueStorage : \A i \in DOMAIN stored :
    /\ stored[i].attempts < MaxAttempts
    /\ stored[i].timestamp <= now

\* The age of the item a run of processQueue has just handed to
\* sendFunction.
SentAge == last.at - items[last.sent[1]].timestamp

\* C24: a flush never sends a queued item whose age exceeds maxAge.
C24_NoExpiredSend ==
  last.sent # <<>> => SentAge <= offlineManager.maxAge

\* C25: flushQueue() on an empty offline queue makes no transport call and
\* leaves the queue, the in-progress flag and the durable store as they
\* were.
C25_EmptyFlushNoOp ==
  (last.op = "flushQueue" /\ last.before = <<>>)
  => /\ ~last.posted
     /\ offlineManager.queue = <<>>
     /\ offlineManager.processingQueue = last.processingBefore
     /\ queueStorage = last.storeBefore

(***************************************************************************)
(* SpecCapture: captureException with every outcome of its stages, on the  *)
(* coordinator with its breaker and offline queue.  sendErrorDirectly and  *)
(* sendBatchDirectly are promises that resolve or throw.  last carries     *)
(* what the last call did and, as history, the reports that were admitted  *)
(* while the breaker refused execution.                                    *)
(***************************************************************************)
CaptureInputs ==
  [stage : Stages, errorData : CapturedErrors, payloadSize : CapturedSizes,
   context : [suppressed : BOOLEAN]]

NoCapture ==
  [op |-> "init", r |-> 0, gate |-> FALSE, stage |-> "none", hook |-> FALSE,
   calls |-> <<>>, counted |-> 0, records |-> 0, charged |-> FALSE,
   posted |-> FALSE, acctSame |-> TRUE, resolved |-> {}, refused |-> {}]

\* The reports whose captureException call returned in the segment.
ResolvedNow(w) ==
  {r \in DOMAIN reports :
     w.reps[r].promise = "resolved" /\ reports[r].promise # "resolved"}

InitCapture ==
  /\ now = 0
  /\ AcctAtStart
  /\ BreakerAtStart
  /\ \E batching \in BOOLEAN, beforeSend \in BOOLEAN :
       ReporterAtStart(batching, TRUE, beforeSend, 0, MaxAge,
                       MaxQueueSize, ReportIds)
  /\ last = NoCapture

CaptureStep(op, w) ==
  /\ Commit(w)
  /\ last' = [NoCapture EXCEPT !.op = op, !.posted = w.obs.posted,
                               !.resolved = ResolvedNow(w),
                               !.refused = last.refused]
  /\ UNCHANGED <<now, marks, cbCalls>>

\* A call of captureException.
CaptureCall(c) ==
  /\ Unused # {}
  /\ \E r \in {SetMin(Unused)} :
     \E w \in {captureException(World, r, c.stage, c.errorData, c.payloadSize,
                                c.context)} :
         /\ Commit(w)
         /\ last' = [op |-> "capture", r |-> r,
                     gate |-> EntryGate(config, isInitialized),
                     stage |-> c.stage, hook |-> config.beforeSend,
                     calls |-> w.obs.calls,
                     counted |-> w.mon.errorsSuppressed - sdkMonitor.errorsSuppressed,
                     records |-> w.reps[r].suppressed - reports[r].suppressed,
                     charged |-> w.reps[r].charged,
                     posted |-> w.obs.posted,
                     acctSame |-> /\ w.rl = rateLimiter
                                  /\ w.q = quotaManager
                                  /\ w.qs = quotaStorage,
                     resolved |-> ResolvedNow(w),
                     refused |-> IF w.obs.admitted = r /\ BreakerBlocks(circuitBreaker)
                                 THEN last.refused \cup {r} ELSE last.refused]
         /\ UNCHANGED <<now, marks, cbCalls>>

\* The promise of sendErrorDirectly / sendBatchDirectly settles.
CaptureSendSettles(task, ok) ==
  CaptureStep("settle",
    IF ok THEN sendDirectlyReturns(Resumed(task), task)
    ELSE sendDirectlyThrows(Resumed(task), task, FALSE))

CaptureBatchTimer ==
  /\ batchManager.batchTimer = "armed"
  /\ batchManager.remaining = 0
  /\ CaptureStep("timer", sendCurrentBatch([World EXCEPT !.bm.batchTimer = "fired"], 0))

CaptureUpdateConfig(updates) == CaptureStep("updateConfig", updateConfig(World, updates))

CaptureOnline ==
  /\ offlineManager.listening
  /\ ~offlineManager.isOnline
  /\ CaptureStep("online", processQueue([World EXCEPT !.om.isOnline = TRUE], FALSE))

CaptureOffline ==
  /\ offlineManager.listening
  /\ offlineManager.isOnline
  /\ CaptureStep("offline", [World EXCEPT !.om.isOnline = FALSE])

CaptureDestroy ==
  /\ ~destroyed
  /\ CaptureStep("destroy", ErrorReporter_destroy(World))

CaptureTick ==
  /\ now < MaxClock
  /\ now' = now + 1
  /\ last' = [NoCapture EXCEPT !.op = "tick", !.refused = last.refused]
  /\ UNCHANGED <<acctVars, cbVars, coordVars>>

NextCapture ==
  \/ \E c \in CaptureInputs : CaptureCall(c)
  \/ \E task \in tasks, ok \in BOOLEAN : CaptureSendSettles(task, ok)
  \/ CaptureBatchTimer
  \/ \E updates \in Updates : CaptureUpdateConfig(updates)
  \/ CaptureDestroy
  \/ CaptureTick

SpecCapture == InitCapture /\ [][NextCapture]_vars

\* The last call made the named call on a collaborator.
Made(method) == \E i \in DOMAIN last.calls : last.calls[i] = method

\* The last capture was dropped: at the entry gate (disabled or not
\* initialized), by validation, by the beforeSend hook, or by the rate
\* limiter (cap or duplicate) or the quota accountant.
CaptureDropped ==
  /\ last.op = "capture"
  /\ \/ last.gate
     \/ ~last.gate /\ last.stage = "invalid"
     \/ ~last.gate /\ last.hook /\ last.stage = "hookDrop"
     \/ Made("rateLimiter.canSendError") /\ ~last.charged

\* C26: a capture that is dropped, for whichever reason, increments
\* errorsSuppressed by exactly one, and a capture that is admitted (and so
\* goes on to be delivered or queued) does not increment it.
C26_DropsCounted ==
  /\ CaptureDropped => last.counted = 1
  /\ (last.op = "capture" /\ last.charged) => last.counted = 0

(***************************************************************************)
(* Claims about the quota accountant (SpecAcct).                           *)
(***************************************************************************)
QuotaReasons ==
  <<"Payload size exceeds limit", "Burst limit exceeded",
    "Daily quota exceeded", "Monthly quota exceeded">>

\* The limits, by their place in QuotaReasons, that the ledger as it stands
\* at time now (old periods and expired burst entries dropped) fails.
FailingLimits(payloadSize) ==
  LET q == cleanupOldData(quotaManager, now)
  IN  (IF payloadSize > PayloadSizeLimit THEN {1} ELSE {})
        \cup (IF Len(q.burstCounts) >= BurstLimit THEN {2} ELSE {})
        \cup (IF q.dailyCount >= DailyLimit THEN {3} ELSE {})
        \cup (IF q.monthlyCount >= MonthlyLimit THEN {4} ELSE {})

\* C27: the quota check allows exactly when no limit fails; otherwise its
\* reason is that of the first failing limit in the order payload size,
\* burst, daily, monthly; and the check increments no counter.
C27_FirstFailureWins ==
  \A payloadSize \in PayloadSizes :
    LET check == QuotaManager_canSendError(quotaManager, payloadSize, now)
        failing == FailingLimits(payloadSize)
    IN  /\ check.result.allowed <=> failing = {}
        /\ failing # {} => check.result.reason = QuotaReasons[SetMin(failing)]
        /\ check.q.dailyCount <= quotaManager.dailyCount
        /\ check.q.monthlyCount <= quotaManager.monthlyCount
        /\ Len(check.q.burstCounts) <= Len(quotaManager.burstCounts)

\* The burst, the daily and the monthly limit fail at once.
C27_SeveralLimitsFail ==
  /\ FailingLimits(1) = {2, 3, 4}
  /\ last.op = "capture"
  /\ last.quota.reason = "Burst limit exceeded"

DayRolled == getDateKey(now) # quotaManager.lastResetDate

MonthRolled == getMonthKey(now) # quotaManager.lastResetMonth

\* C28: when the day key (month key) of now differs from the stored one,
\* an admission check and a usage record first set the daily (monthly)
\* counter to zero and store the new key, so the check is not denied by
\* the old count and the record counts from zero; a period whose key has
\* not changed keeps its counter.
C28_RolloverResets ==
  LET usage == QuotaManager_recordUsage(quotaManager, now)
  IN  /\ usage.lastResetDate = getDateKey(now)
      /\ usage.lastResetMonth = getMonthKey(now)
      /\ usage.dailyCount = (IF DayRolled THEN 0 ELSE quotaManager.dailyCount) + 1
      /\ usage.monthlyCount = (IF MonthRolled THEN 0 ELSE quotaManager.monthlyCount) + 1
      /\ \A payloadSize \in PayloadSizes :
           LET check == QuotaManager_canSendError(quotaManager, payloadSize, now)
           IN  /\ check.q.lastResetDate = getDateKey(now)
               /\ check.q.lastResetMonth = getMonthKey(now)
               /\ check.q.dailyCount = IF DayRolled THEN 0 ELSE quotaManager.dailyCount
               /\ check.q.monthlyCount = IF MonthRolled THEN 0 ELSE quotaManager.monthlyCount
               /\ DayRolled => check.result.reason # "Daily quota exceeded"
               /\ MonthRolled => check.result.reason # "Monthly quota exceeded"

\* A ledger with a full daily count was loaded from the durable store on a
\* later day of the same month.
C28_LoadedOldDay ==
  /\ last.op = "reload"
  /\ DayRolled
  /\ ~MonthRolled
  /\ quotaManager.dailyCount >= DailyLimit
  /\ quotaManager.monthlyCount > 0

\* The places of the named call among the calls of the last capture.
CallsOf(method) == {i \in DOMAIN last.calls : last.calls[i] = method}

AdmissionCalls ==
  CallsOf("rateLimiter.canSendError") \cup CallsOf("quotaManager.canSendError")
    \cup CallsOf("markErrorSent") \cup CallsOf("recordUsage")
    \cup CallsOf("sendError")

\* The last capture passed the entry gate and validation.
PassedValidation ==
  /\ last.op = "capture"
  /\ ~last.gate
  /\ last.stage \notin {"throw", "invalid"}

\* C29: with a beforeSend hook configured, a capture that passed validation
\* invokes the hook exactly once, after sanitizeErrorData and before any
\* rate-limit or quota call; a capture that did not pass validation, or
\* one made with no hook configured, does not invoke it.  When the hook
\* returns nothing the report is dropped with one trackSuppressedError
\* call: the rate and quota accountants and the quota store are left as
\* they were, no rate or quota method is called and the transport is not
\* invoked.
C29_HookBeforeAdmission ==
  /\ (PassedValidation /\ last.hook)
     => /\ Cardinality(CallsOf("beforeSend")) = 1
        /\ \A h \in CallsOf("beforeSend") :
             /\ \E v \in CallsOf("sanitizeErrorData") : v < h
             /\ \A a \in AdmissionCalls : h < a
  /\ (last.op = "capture" /\ ~(PassedValidation /\ last.hook))
     => CallsOf("beforeSend") = {}
  /\ (PassedValidation /\ last.hook /\ last.stage = "hookDrop")
     => /\ last.records = 1
        /\ ~last.charged
        /\ last.acctSame
        /\ AdmissionCalls = {}
        /\ ~last.posted

\* The hook dropped a report after an earlier one had been admitted.
C29_HookDroppedReport ==
  /\ PassedValidation
  /\ last.hook
  /\ last.stage = "hookDrop"
  /\ last.records = 1
  /\ rateLimiter.requests # <<>>
  /\ quotaManager.dailyCount > 0

(***************************************************************************)
(* SpecDivert: the coordinator with no beforeSend hook, capturing reports  *)
(* that pass every stage, over a time long enough for the breaker to open  *)
(* and a further report to be admitted.                                    *)
(***************************************************************************)
DivertIds == 1..MaxCaptures

DivertInputs ==
  [stage : {"pass"}, errorData : CapturedErrors, payloadSize : {1},
   context : {NoContext}]

InitDivert ==
  /\ now = 0
  /\ AcctAtStart
  /\ BreakerAtStart
  /\ \E batching \in BOOLEAN, offline \in BOOLEAN :
       ReporterAtStart(batching, offline, FALSE, 0, MaxAge, MaxQueueSize,
                       DivertIds)
  /\ last = NoCapture

DivertTick ==
  /\ now < MaxCaptureTime
  /\ now' = now + 1
  /\ last' = [NoCapture EXCEPT !.op = "tick", !.refused = last.refused]
  /\ UNCHANGED <<acctVars, cbVars, coordVars>>

NextDivert ==
  \/ \E c \in DivertInputs : CaptureCall(c)
  \/ \E task \in tasks, ok \in BOOLEAN : CaptureSendSettles(task, ok)
  \/ CaptureBatchTimer
  \/ \E updates \in Updates : CaptureUpdateConfig(updates)
  \/ CaptureOnline
  \/ CaptureOffline
  \/ DivertTick

SpecDivert == InitDivert /\ [][NextDivert]_vars

\* C30: a report that was admitted while the circuit breaker refused
\* execution is, when its captureException call returns, in the offline
\* queue and its stored copy with attempts = 0.
C30_RefusedIsQueued ==
  \A r \in last.resolved : r \in last.refused => QueuedFresh(r)

(***************************************************************************)
(* The coordinator's send path under a failing transport: sendError is     *)
(* called once for each report that captureException admitted, one report  *)
(* after the other, with batching disabled and the network online.  The    *)
(* chain sendErrorDirectly -> executeWithRetry is one pending promise,     *)
(* which resolves or throws result.error.                                  *)
(***************************************************************************)
TripIds == 1..MaxTripSends

\* streak: the number of consecutive reports, up to the last one that
\* returned, whose every transport send failed; since: the time at which
\* the first of them was captured.
NoTrip == [op |-> "init", r |-> 0, streak |-> 0, since |-> 0]

InitTrip ==
  /\ now = 0
  /\ AcctAtStart
  /\ BreakerAtStart
  /\ \E offline \in BOOLEAN :
       ReporterAtStart(FALSE, offline, FALSE, 0, MaxAge, MaxQueueSize, TripIds)
  /\ last = NoTrip

TripStep(op, r, w) ==
  /\ Commit(w)
  /\ last' = [op |-> op, r |-> r,
              streak |-> IF ResolvedNow(w) = {} THEN last.streak
                         ELSE IF \A d \in ResolvedNow(w) : w.reps[d].delivered = 0
                         THEN last.streak + 1 ELSE 0,
              since |-> IF op = "send" /\ last.streak = 0 THEN now ELSE last.since]
  /\ UNCHANGED <<now, marks, cbCalls>>

\* captureException admitted the report and awaits this.sendError(...).
TripSend ==
  /\ Unused # {}
  /\ tasks = {}
  /\ \E r \in {SetMin(Unused)} :
       TripStep("send", r, sendError([World EXCEPT !.reps[r].promise = "pending"], r))

TripSendSettles(task, ok) ==
  TripStep("settle", task.waiter,
    IF ok THEN sendDirectlyReturns(Resumed(task), task)
    ELSE sendDirectlyThrows(Resumed(task), task, FALSE))

TripTick ==
  /\ now < MaxTripTime
  /\ now' = now + 1
  /\ last' = [last EXCEPT !.op = "tick"]
  /\ UNCHANGED <<acctVars, cbVars, coordVars>>

NextTrip ==
  \/ TripSend
  \/ \E task \in tasks, ok \in BOOLEAN : TripSendSettles(task, ok)
  \/ TripTick

SpecTrip == InitTrip /\ [][NextTrip]_vars

\* C31: when failureThreshold (5) consecutive reports have had all their
\* transport sends fail, all within one monitoring period, the circuit
\* breaker is OPEN.
C31_FailuresOpenBreaker ==
  (last.streak >= FailureThreshold /\ now - last.since < MonitoringPeriod)
    => circuitBreaker.state = "OPEN"

\* The send of item id by the run of processQueue failed in the last segment.
FlushFailure(id) ==
  /\ last.settled.kind = "flush"
  /\ ~last.settled.ok
  /\ last.settled.payload = <<id>>

\* The failed deliveries of an item of the queue, the last segment included.
FailuresAfter(item) ==
  item.attempts + (IF FlushFailure(item.id) THEN 1 ELSE 0)

\* The run of processQueue that ended in the last segment removes the item:
\* the run delivered it, or it has failed MaxAttempts times.
LeavesInFlush(item) ==
  /\ last.flushEnded
  /\ \E i \in DOMAIN last.flushed : last.flushed[i] = item.id
  /\ \/ reports[item.id].delivered > 0
     \/ FailuresAfter(item) >= MaxAttempts

\* The items of the queue before the last segment that no run of
\* processQueue ending in it removes, in their order.
StaysAfterFlush == SelectSeq(last.before, LAMBDA item : ~LeavesInFlush(item))

C33_EnqueueStartsFlush ==
  (last.enqueued # 0 /\ offlineManager.isOnline /\ ~last.processingBefore)
    => /\ offlineManager.processingQueue
       /\ FlushRuns # {}

(***************************************************************************)
(* SecurityValidator on the context of a report.  The context is a graph   *)
(* of objects: heap[o] are the objects that the properties of object o     *)
(* hold.  Object 1 is errorData.context, which formatError builds afresh,  *)
(* so no object holds it; the others come from the caller and may hold     *)
(* each other in any way.  last is the run of the call: calls is the stack *)
(* of sanitizeObject calls, each with the properties it has still to       *)
(* visit.  The engine's call stack holds MaxCallStack calls, more than the *)
(* deepest context without a cycle needs.                                  *)
(***************************************************************************)
ObjectNodes == 1..MaxNodes

Heaps == [ObjectNodes -> SUBSET (ObjectNodes \ {1})]

\* The objects reachable from object o through at least one property.
RECURSIVE ReachableIn(_, _, _)
ReachableIn(heap, frontier, seen) ==
  IF frontier \subseteq seen THEN seen
  ELSE ReachableIn(heap, UNION {heap[o] : o \in frontier}, seen \cup frontier)

Holds(heap, o) == ReachableIn(heap, heap[o], {})

\* JSON.stringify throws a TypeError on such a value.
Circular(heap) == \E o \in Holds(heap, 1) \cup {1} : o \in Holds(heap, o)

SanitizeEntries == {"captureException", "sanitizeErrorData"}

InitSanitize ==
  /\ now = 0
  /\ AcctAtStart
  /\ BreakerAtStart
  /\ CoordinatorAtStart(FALSE, TRUE, 0, MaxAge, MaxQueueSize)
  /\ \E heap \in Heaps, entry \in SanitizeEntries :
       last = [entry |-> entry, heap |-> heap, calls |-> <<>>,
               status |-> IF entry = "captureException" THEN "validatePayload"
                          ELSE "sanitizeErrorData"]

SanitizeFrame(heap, o) == [obj |-> o, todo |-> heap[o]]

\* validatePayload: calculatePayloadSize and detectSensitiveData stringify
\* the report.
SanitizeValidate ==
  /\ last.status = "validatePayload"
  /\ last' = [last EXCEPT !.status = IF Circular(last.heap) THEN "TypeError"
                                     ELSE "sanitizeErrorData"]
  /\ UNCHANGED <<now, acctVars, cbVars, coordVars>>

\* sanitizeErrorData calls sanitizeObject(sanitized.context).
SanitizeContext ==
  /\ last.status = "sanitizeErrorData"
  /\ last' = [last EXCEPT !.status = "sanitizeObject",
                          !.calls = <<SanitizeFrame(last.heap, 1)>>]
  /\ UNCHANGED <<now, acctVars, cbVars, coordVars>>

\* The running call of sanitizeObject reaches a property that holds an
\* object and calls sanitizeObject on it.
SanitizeDescend ==
  /\ last.status = "sanitizeObject"
  /\ last.calls[Len(last.calls)].todo # {}
  /\ LET top == Len(last.calls)
         value == SetMin(last.calls[top].todo)
     IN  last' = IF top >= MaxCallStack
                 THEN [last EXCEPT !.status = "RangeError", !.calls = <<>>]
                 ELSE [last EXCEPT !.calls =
                         Append([@ EXCEPT ![top].todo = @ \ {value}],
                                SanitizeFrame(last.heap, value))]
  /\ UNCHANGED <<now, acctVars, cbVars, coordVars>>

\* The running call of sanitizeObject has visited every property and
\* returns its copy.
SanitizeReturn ==
  /\ last.status = "sanitizeObject"
  /\ last.calls[Len(last.calls)].todo = {}
  /\ last' = IF Len(last.calls) = 1
             THEN [last EXCEPT !.status = "sanitized", !.calls = <<>>]
             ELSE [last EXCEPT !.calls = SubSeq(@, 1, Len(@) - 1)]
  /\ UNCHANGED <<now, acctVars, cbVars, coordVars>>

NextSanitize ==
  \/ SanitizeValidate
  \/ SanitizeContext
  \/ SanitizeDescend
  \/ SanitizeReturn

SpecSanitize == InitSanitize /\ [][NextSanitize]_vars

\* C34: the traversal of sanitizeObject ends without an exception on every
\* context, one with a reference cycle included, so that the report goes on
\* through the pipeline.
C34_TraversalCompletes == last.status # "RangeError"

\* C35: the attempts field of the result of executeWithRetry is the number
\* of times the operation was invoked, whether the call succeeded, used up
\* its attempts or stopped early on an error that is not retried.
C35_AttemptsCountsInvocations ==
  retryCall.phase = "returned" => retryCall.result.attempts = retryCall.invoked

(***************************************************************************)
(* The HTTP POSTs of each report.  The coordinator sends unbatched; each   *)
(* POST of sendWithCompression settles on its own, and executeWithRetry    *)
(* sleeps between its attempts.  last.posts counts, for each report, the   *)
(* POSTs that carried it.                                                  *)
(***************************************************************************)
PostIds == 1..MaxPostReports

InitPosts ==
  /\ now = 0
  /\ AcctAtStart
  /\ BreakerAtStart
  /\ \E offline \in BOOLEAN :
       ReporterAtStart(FALSE, offline, FALSE, 0, MaxAge, MaxQueueSize, PostIds)
  /\ last = [op |-> "init", posts |-> [r \in PostIds |-> 0]]

\* The reports that the segment handed to httpClient.post.
PostedNow(w) ==
  IF ~w.obs.posted THEN {}
  ELSE UNION {SeqToSet(task.payload) : task \in {t \in w.tasks : t.phase = "post"}}

PostsStep(op, w) ==
  /\ Commit(w)
  /\ last' = [op |-> op,
              posts |-> [r \in PostIds |->
                           last.posts[r] + (IF r \in PostedNow(w) THEN 1 ELSE 0)]]
  /\ UNCHANGED <<now, marks, cbCalls>>

PostsCapture(errorData) ==
  /\ Unused # {}
  /\ \E w \in {captureException(World, SetMin(Unused), "pass", errorData, 1, NoContext)} :
       PostsStep("capture", w)

PostsSettle(task, outcome) ==
  /\ task.phase = "post"
  /\ \E w \in {IF outcome = "ok" THEN sendDirectlyReturns(Resumed(task), task)
               ELSE IF task.attempt = MaxRetries \/ outcome = "fatal"
               THEN sendDirectlyThrows(Resumed(task), task, outcome = "retryable")
               ELSE [World EXCEPT !.tasks = (@ \ {task}) \cup {[task EXCEPT !.phase = "sleep"]}]} :
       PostsStep("settle", w)

PostsSleepEnds(task) ==
  /\ task.phase \in {"sleep", "sleepOuter"}
  /\ \E w \in {sendWithCompression(Resumed(task),
                 IF task.phase = "sleep"
                 THEN [task EXCEPT !.attempt = @ + 1]
                 ELSE [task EXCEPT !.outer = @ + 1, !.attempt = 0])} :
       PostsStep("sleepEnds", w)

PostsFlushQueue ==
  \E w \in {flushQueue(World)} : PostsStep("flushQueue", w)

NextPosts ==
  \/ \E errorData \in CapturedErrors : PostsCapture(errorData)
  \/ \E task \in tasks, outcome \in Outcomes : PostsSettle(task, outcome)
  \/ \E task \in tasks : PostsSleepEnds(task)
  \/ PostsFlushQueue

SpecPosts == InitPosts /\ [][NextPosts]_vars

\* C36: with batching and offline support disabled, a captured report is
\* handed to the HTTP POST at most maxRetries + 1 times in all.
C36_PostsBounded ==
  ~config.enableOfflineSupport
    => \A r \in PostIds : last.posts[r] <= MaxRetries + 1

\* The items that were put in the queue while the run of processQueue that
\* ended in the last segment was in progress: they are in the queue but not
\* in the copy the run iterated.
EnqueuedDuringFlush ==
  {last.before[i].id : i \in DOMAIN last.before} \ SeqToSet(last.flushed)

Persisted == UNION {{stored[i].id : i \in DOMAIN stored} : stored \in queueStorage}

\* C37: a run of processQueue sends only the items of its copy of the queue;
\* when it ends, every item that was put in the queue meanwhile is unsent,
\* still in the queue in memory and in the stored array; and no item is
\* delivered twice.
C37_EnqueueDuringFlush ==
  /\ \A task \in FlushRuns : SeqToSet(task.payload) \subseteq SeqToSet(task.snapshot)
  /\ last.flushEnded
       => \A id \in EnqueuedDuringFlush :
            /\ reports[id].delivered = 0
            /\ \E i \in DOMAIN offlineManager.queue : offlineManager.queue[i] = id
            /\ id \in Persisted
  /\ \A r \in DOMAIN reports : reports[r].delivered <= 1

\* A run of processQueue that delivered an item ends while an item put in
\* the queue during the run is waiting.
C37_FlushEndsWithNewItem ==
  /\ last.flushEnded
  /\ EnqueuedDuringFlush # {}
  /\ \E i \in DOMAIN last.flushed : reports[last.flushed[i]].delivered = 1

\* What an OfflineManager constructed now would find stored: the ids of the
\* array under the key of the queue.
StoredAfter == UNION {{stored[i].id : i \in DOMAIN stored} : stored \in queueStorage'}

\* The quota ledger an instance constructed now would load.
LedgerAfter == loadFromStorage(NewQuotaManager(now), quotaStorage')

QueueSurvivesDestroy ==
  (~destroyed /\ destroyed')
    => \A i \in DOMAIN offlineManager.queue : offlineManager.queue[i] \in StoredAfter

LedgerSurvivesDestroy ==
  (~destroyed /\ destroyed')
    => /\ LedgerAfter.dailyCount = quotaManager.dailyCount
       /\ LedgerAfter.monthlyCount = quotaManager.monthlyCount
       /\ LedgerAfter.burstCounts = quotaManager.burstCounts

\* C38: destroy() leaves the durable state as it was: the stored array of
\* the queue still holds every report that was queued, and the stored quota
\* counters keep their values, so that an instance constructed afterwards
\* loads the same queue and the same counters.
C38_DurableStateSurvives ==
  [][QueueSurvivesDestroy /\ LedgerSurvivesDestroy]_vars

\* C39: with enableOfflineSupport false the offline queue stays empty, and
\* a report that is admitted while the circuit breaker refuses execution is
\* not handed to the transport.
C39_NoQueueWithoutOfflineSupport ==
  ~config.enableOfflineSupport
    => /\ offlineManager.queue = <<>>
       /\ (last.op = "capture" /\ last.r \in last.refused) => ~last.posted

\* The timestamps of the burst ledger inside the burst window.
InBurstWindow(burstCounts, t) ==
  {i \in DOMAIN burstCounts : t - burstCounts[i] < BurstWindowMs}

====
